---- MODULE Spec2Model ----
(***************************************************************************)
(* Subscription lifecycle and billing-period reconciliation of the         *)
(* restaurant loyalty SaaS: the edge functions create-payment,             *)
(* change-plan, cancel-subscription, reactivate-subscription (three        *)
(* variants) and the Stripe webhook, acting on the local `subscriptions`   *)
(* and `invoices` tables and on the remote (Stripe) subscription objects.  *)
(*                                                                         *)
(* Every handler invocation is one atomic action.  Time is a clock `now`   *)
(* counted in whole billing units (one unit = one month = the 30-day       *)
(* trial); the remote side keeps Unix seconds, the local store keeps the   *)
(* millisecond value an ISO-8601 string denotes (seconds * 1000).          *)
(***************************************************************************)
EXTENDS Integers, Sequences, FiniteSets, TLC

VARIABLES
  now,            \* the clock, in seconds (remote side unit)
  subscriptions,  \* local table `subscriptions`: sequence of rows, id = index
  invoices,       \* local table `invoices`: set of rows, unique stripe_invoice_id
  remoteSubs,     \* Stripe subscriptions: sequence, id = index
  remoteInvoices, \* Stripe invoices: sequence, id = index
  customers,      \* number of Stripe customers created so far (ids 1..customers)
  subHist,        \* snapshots of remote subscriptions that webhooks may carry
  response,       \* what the last handler invocation answered and did
  lastEvent,      \* payload of the last webhook processed, {} when another
                  \* operation came after it
  deferred,       \* per user: the deferred downgrade accepted last, {} if none
  inflight        \* create-payment invocations between their remote calls and
                  \* their write to the local table

vars == <<now, subscriptions, invoices, remoteSubs, remoteInvoices, customers,
          subHist, response, lastEvent, deferred, inflight>>

---------------------------------------------------------------------------
(* Bounds of the model *)
MaxTime == 1
MaxSubs == 1
MaxCust == 2
MaxHist == 1
MaxInv == 1
MaxDead == 1
MaxFlight == 2
MaxRemote == 2
MaxPeriodDays == 372   \* longest period given to the period calculator, in days
MaxStart == 1          \* latest start of such a period

---------------------------------------------------------------------------
(* Vocabulary *)
Users == {"u1", "u2"}
Anon == "anon"                 \* a request without a valid caller identity
Plans == {"trial", "monthly", "semiannual", "annual"}
NoFp == "null"
NoPlan == "null"
NoUser == "null"
NoId == 0                      \* SQL NULL / JS null for an id
PaymentMethods == {"pm_F", "pm_F2", "pm_G"}
NoPm == "null"

\* pm.card?.fingerprint of create-payment.ts:37: two payment methods are
\* tokenizations of the same card F
FpOf(pm) == IF pm \in {"pm_F", "pm_F2"} THEN "F" ELSE "G"

\* billing interval of the price of a plan, in clock units
PlanMonths(p) ==
  CASE p = "monthly" -> 1
    [] p = "semiannual" -> 6
    [] p = "annual" -> 12
    [] OTHER -> 1

\* new Date(seconds * 1000).toISOString(): the local store keeps milliseconds
ToISO(sec) == sec * 1000
\* new Date(iso).getTime()
GetTime(iso) == iso
\* Math.floor(ms / 1000)
FloorSec(ms) == ms \div 1000

---------------------------------------------------------------------------
(* The local store *)

\* .from('subscriptions').select('*').eq('user_id', u)
RowsOf(u) == {i \in DOMAIN subscriptions : subscriptions[i].user_id = u}
\* .maybeSingle(): data is the row when exactly one matches, null otherwise
HasRow(u) == Cardinality(RowsOf(u)) = 1
RowOf(u) == CHOOSE i \in RowsOf(u) : TRUE

\* .eq('id', subscriptionId).single(): the lookup by id alone
RowWithId(u, id) == id \in DOMAIN subscriptions

\* .eq('id', subscriptionId).eq('user_id', user.id).single()
OwnedRow(u, id) == id \in DOMAIN subscriptions /\ subscriptions[id].user_id = u

\* .update(fields).eq('id', id): the named columns of row id are overwritten
UpdateRow(subs, id, fields) ==
  [subs EXCEPT ![id] =
     [c \in DOMAIN subs[id] |-> IF c \in DOMAIN fields THEN fields[c] ELSE subs[id][c]]]

\* a row as .insert() leaves it: columns not named take their defaults
\* (pending_plan_change jsonb DEFAULT NULL, the empty set here)
DefaultRow ==
  [user_id |-> NoUser, plan_type |-> NoPlan, status |-> "null",
   stripe_subscription_id |-> NoId, stripe_customer_id |-> NoId,
   current_period_start |-> 0, current_period_end |-> 0,
   cancel_at_period_end |-> FALSE, card_fingerprint |-> NoFp,
   pending_plan_change |-> {}]

InsertRow(subs, fields) ==
  Append(subs, [c \in DOMAIN DefaultRow |->
                  IF c \in DOMAIN fields THEN fields[c] ELSE DefaultRow[c]])

---------------------------------------------------------------------------
(* The remote billing provider *)

\* the webhook payload of a subscription: the object with its id
Snapshot(rs, i) ==
  [id |-> i, customer |-> rs[i].customer, status |-> rs[i].status,
   current_period_start |-> rs[i].current_period_start,
   current_period_end |-> rs[i].current_period_end,
   cancel_at_period_end |-> rs[i].cancel_at_period_end,
   user_id |-> rs[i].user_id, plan_type |-> rs[i].plan_type]

\* stripe.subscriptions.retrieve(id) throws for an id the provider does not know
Retrievable(id) == id \in DOMAIN remoteSubs

\* stripe.subscriptions.create(params): a trial (trial_period_days or a future
\* trial_end) starts `trialing` without charge, a paid plan is charged at once
\* and is `active` when the charge succeeds, `incomplete` otherwise
StripeCreate(p, paid) ==
  [customer |-> p.customer,
   status |-> IF p.trial_period_days \/ p.trial_end # 0 THEN "trialing"
              ELSE IF paid THEN "active" ELSE "incomplete",
   current_period_start |-> now,
   current_period_end |-> IF p.trial_period_days THEN now + PlanMonths("trial")
                          ELSE IF p.trial_end # 0 THEN p.trial_end
                          ELSE now + PlanMonths(p.price),
   cancel_at_period_end |-> p.cancel_at_period_end,
   user_id |-> p.user_id, plan_type |-> p.plan_type,
   interval |-> PlanMonths(p.price)]

\* the parameters a stripe.subscriptions.update call leaves out
NoUpdate ==
  [price |-> NoPlan, cancel |-> "keep", plan_type |-> NoPlan,
   trial_end_now |-> FALSE, trial_end |-> 0,
   anchor |-> "unset", proration |-> "unset"]

\* the provider rejects an update of a canceled subscription and a trial_end
\* that is not in the future
StripeUpdateRejected(s, p) ==
  \/ s.status \in {"canceled", "incomplete_expired"}
  \/ p.trial_end # 0 /\ p.trial_end <= now

\* stripe.subscriptions.update(id, params): trial_end 'now' and
\* billing_cycle_anchor 'now' start a new period at once and charge;
\* a trial_end timestamp makes the subscription trial until then;
\* otherwise period and status stay
StripeUpdate(s, p, paid) ==
  LET interval == IF p.price # NoPlan THEN PlanMonths(p.price) ELSE s.interval
      restart == p.trial_end_now \/ p.anchor = "now"
  IN  [customer |-> s.customer,
       status |-> IF restart THEN (IF paid THEN "active" ELSE "past_due")
                  ELSE IF p.trial_end # 0 THEN "trialing" ELSE s.status,
       current_period_start |-> IF restart \/ p.trial_end # 0 THEN now
                                ELSE s.current_period_start,
       current_period_end |-> IF restart THEN now + interval
                              ELSE IF p.trial_end # 0 THEN p.trial_end
                              ELSE s.current_period_end,
       cancel_at_period_end |-> IF p.cancel = "keep" THEN s.cancel_at_period_end
                                ELSE p.cancel = "true",
       user_id |-> s.user_id,
       plan_type |-> IF p.plan_type # NoPlan THEN p.plan_type ELSE s.plan_type,
       interval |-> interval]

\* the first invoice of a new subscription: paid when the subscription
\* started (a trial's is for nothing), still open when the charge failed
FirstInvoice(sub, id) ==
  [customer |-> sub.customer, subscription |-> id,
   statuses |-> IF sub.status = "incomplete" THEN {"draft", "open"}
                ELSE {"draft", "open", "paid"}]

WithInvoice(invs, inv) == IF Len(invs) < MaxInv THEN Append(invs, inv) ELSE invs

---------------------------------------------------------------------------
(* What a handler invocation answers *)

Response(op, caller, status, error, mutation, calls) ==
  [op |-> op, caller |-> caller, status |-> status, error |-> error,
   mutation |-> mutation, calls |-> calls]

\* a handler that has written status active to its user's rows before the
\* remote call that throws
ThrownAfterWrite(op, caller, error, mutation, calls, subs, rs, cust) ==
  [subs |-> [i \in DOMAIN subs |->
               IF subs[i].user_id = caller
               THEN [subs[i] EXCEPT !.status = "active", !.cancel_at_period_end = FALSE]
               ELSE subs[i]],
   remote |-> rs, customers |-> cust,
   resp |-> Response(op, caller, 400, error, mutation, calls)]

\* a handler that throws: `subs`, `rs` and `cust` are the local table and the
\* remote objects as the statements executed before the throw left them
Thrown(op, caller, error, mutation, calls, subs, rs, cust) ==
  [subs |-> subs, remote |-> rs, customers |-> cust,
   resp |-> Response(op, caller, 400, error, mutation, calls)]

Returned(op, caller, mutation, calls, subs, rs, cust) ==
  [subs |-> subs, remote |-> rs, customers |-> cust,
   resp |-> Response(op, caller, 200, "none", mutation, calls)]

\* an outcome with what the invocation sent and answered besides: the
\* parameters of its stripe.subscriptions.update call, the body of its response
Issued(o, fields) == [o EXCEPT !.resp = fields @@ o.resp]

---------------------------------------------------------------------------
(* create-payment: CreateOrChangeSubscription *)

\* where a remote call of create-payment may fail
CreatePaymentFaults ==
  {"none", "paymentMethods.retrieve", "customers.create", "paymentMethods.attach",
   "already attached", "retrieve (check)", "retrieve (current)",
   "subscriptions.update", "subscriptions.create"}

CreatePaymentOutcome(u, req, fail, paid) ==
  LET op == "create-payment"
      pm == req.paymentMethodId
      \* lines 33-39: a failed retrieval is swallowed, the fingerprint stays null
      cardFingerprint ==
        IF pm = NoPm \/ fail = "paymentMethods.retrieve" THEN NoFp ELSE FpOf(pm)
      c1 == IF pm = NoPm THEN {} ELSE {"paymentMethods.retrieve"}
      \* lines 41-45
      duplicates ==
        {i \in DOMAIN subscriptions :
           /\ subscriptions[i].card_fingerprint = cardFingerprint
           /\ subscriptions[i].user_id # u}
      \* lines 48-53
      hasDb == HasRow(u)
      dbSub == subscriptions[RowOf(u)]
      linked == hasDb /\ dbSub.stripe_customer_id # NoId
      stripeCustomerId == IF linked THEN dbSub.stripe_customer_id ELSE customers + 1
      cust == IF linked THEN customers ELSE customers + 1
      c2 == c1 \cup (IF linked THEN {} ELSE {"customers.create"})
      \* lines 54-58
      c3 == c2 \cup (IF pm = NoPm THEN {} ELSE {"paymentMethods.attach"})
      \* lines 61-65
      storedId == IF hasDb THEN dbSub.stripe_subscription_id ELSE NoId
      c4 == c3 \cup (IF storedId = NoId THEN {} ELSE {"subscriptions.retrieve"})
      activeStripeSubId ==
        IF /\ storedId # NoId
           /\ fail # "retrieve (check)"
           /\ Retrievable(storedId)
           /\ remoteSubs[storedId].status # "canceled"
        THEN storedId ELSE NoId
      \* line 68
      finalPlanType == IF req.isTrial THEN "trial" ELSE req.planType
      \* lines 73-91
      currentSub == remoteSubs[activeStripeSubId]
      isSwitchingFromRealTrial == dbSub.plan_type = "trial"
      endTrial == isSwitchingFromRealTrial /\ ~req.isTrial
      updateParams ==
        [NoUpdate EXCEPT
           !.price = req.planType,
           !.cancel = IF req.autoRenew THEN "false" ELSE "true",
           !.plan_type = finalPlanType,
           !.trial_end_now = endTrial,
           !.trial_end = IF endTrial THEN 0 ELSE currentSub.current_period_end,
           !.proration = IF endTrial THEN "create_prorations" ELSE "none"]
      updated == StripeUpdate(currentSub, updateParams, paid)
      \* lines 95-102
      createParams ==
        [customer |-> stripeCustomerId, price |-> req.planType,
         trial_period_days |-> req.isTrial, trial_end |-> 0,
         cancel_at_period_end |-> ~req.isTrial /\ ~req.autoRenew,
         user_id |-> u, plan_type |-> finalPlanType]
      created == StripeCreate(createParams, paid)
      \* lines 106-120
      subData(subscription, id) ==
        LET base ==
              [user_id |-> u, plan_type |-> finalPlanType,
               status |-> subscription.status,
               stripe_subscription_id |-> id,
               stripe_customer_id |-> stripeCustomerId,
               current_period_start |-> ToISO(subscription.current_period_start),
               current_period_end |-> ToISO(subscription.current_period_end),
               cancel_at_period_end |-> subscription.cancel_at_period_end]
        IN  IF cardFingerprint # NoFp
            THEN [card_fingerprint |-> cardFingerprint] @@ base ELSE base
      written(subscription, id) ==
        IF hasDb THEN UpdateRow(subscriptions, RowOf(u), subData(subscription, id))
        ELSE InsertRow(subscriptions, subData(subscription, id))
  IN  IF u = Anon THEN
        Thrown(op, u, "Unauthorized", "none", {}, subscriptions, remoteSubs, customers)
      ELSE IF ~req.priceId THEN
        Thrown(op, u, "MissingPriceId", "none", {}, subscriptions, remoteSubs, customers)
      ELSE IF req.isTrial /\ cardFingerprint # NoFp /\ duplicates # {} THEN
        Thrown(op, u, "DuplicateTrialCard", "none", c1, subscriptions, remoteSubs, customers)
      ELSE IF ~linked /\ fail = "customers.create" THEN
        Thrown(op, u, "RemoteProviderError", "none", c2, subscriptions, remoteSubs, customers)
      ELSE IF pm # NoPm /\ fail = "paymentMethods.attach" THEN
        Thrown(op, u, "RemoteProviderError", "none", c3, subscriptions, remoteSubs, cust)
      ELSE IF activeStripeSubId # NoId THEN
        IF fail = "retrieve (current)" THEN
          Thrown(op, u, "RemoteProviderError", "none", c4, subscriptions, remoteSubs, cust)
        ELSE IF fail = "subscriptions.update" \/ StripeUpdateRejected(currentSub, updateParams) THEN
          Thrown(op, u, "RemoteProviderError", "failed",
                 c4 \cup {"subscriptions.update"}, subscriptions, remoteSubs, cust)
        ELSE
          Issued(Returned(op, u, "ok", c4 \cup {"subscriptions.update"},
                          written(updated, activeStripeSubId),
                          [remoteSubs EXCEPT ![activeStripeSubId] = updated], cust),
                 [update |-> updateParams])
      ELSE
        IF fail = "subscriptions.create" THEN
          Thrown(op, u, "RemoteProviderError", "failed",
                 c4 \cup {"subscriptions.create"}, subscriptions, remoteSubs, cust)
        ELSE
          Returned(op, u, "ok", c4 \cup {"subscriptions.create"},
                   written(created, Len(remoteSubs) + 1),
                   Append(remoteSubs, created), cust)

\* the invoices the provider issues for the subscriptions a step created
IssueInvoices(rs) ==
  IF Len(rs) > Len(remoteSubs)
  THEN WithInvoice(remoteInvoices, FirstInvoice(rs[Len(rs)], Len(rs)))
  ELSE remoteInvoices

Deferred(u) == IF u \in Users THEN deferred[u] ELSE {}

\* a user-initiated handler invocation by u with outcome o; d is the deferred
\* downgrade the invocation leaves recorded for u
CommitWithin(cap, u, o, d) ==
  /\ Cardinality({i \in DOMAIN o.remote :
                    o.remote[i].user_id = u /\ o.remote[i].status # "canceled"}) <= cap
  /\ Cardinality({i \in DOMAIN o.remote :
                    o.remote[i].user_id = u /\ o.remote[i].status = "canceled"}) <= MaxDead
  /\ o.customers <= MaxCust
  /\ subscriptions' = o.subs
  /\ remoteSubs' = o.remote
  /\ customers' = o.customers
  /\ response' = o.resp
  /\ remoteInvoices' = IssueInvoices(o.remote)
  /\ lastEvent' = {}
  /\ deferred' = [v \in Users |-> IF v = u THEN d ELSE deferred[v]]
  /\ UNCHANGED <<now, invoices, subHist, inflight>>

\* a handler invocation in a model that follows MaxSubs subscriptions of a
\* user that are not canceled
Commit(u, o, d) == CommitWithin(MaxSubs, u, o, d)

CreatePaymentRequests ==
  [planType : Plans, isTrial : BOOLEAN, autoRenew : BOOLEAN,
   paymentMethodId : PaymentMethods \cup {NoPm}, priceId : {TRUE}]
  \cup {[planType |-> "monthly", isTrial |-> FALSE, autoRenew |-> TRUE,
         paymentMethodId |-> NoPm, priceId |-> FALSE]}

CreatePaymentStep(u, req, fail, paid) ==
  Commit(u, CreatePaymentOutcome(u, req, fail, paid), {})

CreatePayment(u, requests, faults, charges) ==
  \E req \in requests, fail \in faults, paid \in charges :
    CreatePaymentStep(u, req, fail, paid)

\* the columns subData names (lines 106-117): card_fingerprint only when a
\* fingerprint was retrieved
CreatePaymentColumns(req, fail) ==
  (DOMAIN DefaultRow \ {"pending_plan_change", "card_fingerprint"})
  \cup (IF req.paymentMethodId # NoPm /\ fail # "paymentMethods.retrieve"
        THEN {"card_fingerprint"} ELSE {})

\* create-payment up to its last remote call (lines 26-103): the handler has
\* read dbSub and made its remote calls; when none threw, the write of lines
\* 119-120 it has decided on (update of dbSub.id, or insert) is still to come
CreatePaymentBegin(u, req, fail, paid) ==
  LET o == CreatePaymentOutcome(u, req, fail, paid)
      ok == o.resp.status = 200
      inserted == Len(o.subs) > Len(subscriptions)
      id == IF inserted THEN Len(o.subs) ELSE RowOf(u)
      pending ==
        [caller |-> u, insert |-> inserted,
         id |-> IF inserted THEN NoId ELSE id,
         fields |-> [c \in CreatePaymentColumns(req, fail) |-> o.subs[id][c]],
         resp |-> o.resp]
  IN  /\ Cardinality(inflight) < MaxFlight
      /\ Len(o.remote) <= MaxRemote
      /\ o.customers <= MaxCust
      /\ remoteSubs' = o.remote
      /\ customers' = o.customers
      /\ remoteInvoices' = IssueInvoices(o.remote)
      /\ inflight' = IF ok THEN inflight \cup {pending} ELSE inflight
      /\ response' = IF ok THEN response ELSE o.resp
      /\ lastEvent' = {}
      /\ UNCHANGED <<now, subscriptions, invoices, subHist, deferred>>

\* lines 119-125: the write decided on and the answer
CreatePaymentFinish ==
  \E p \in inflight :
    /\ subscriptions' = IF p.insert THEN InsertRow(subscriptions, p.fields)
                        ELSE UpdateRow(subscriptions, p.id, p.fields)
    /\ inflight' = inflight \ {p}
    /\ response' = p.resp
    /\ lastEvent' = {}
    /\ deferred' = [v \in Users |-> IF v = p.caller THEN {} ELSE deferred[v]]
    /\ UNCHANGED <<now, invoices, remoteSubs, remoteInvoices, customers, subHist>>

CreatePaymentStart(u, requests, faults, charges) ==
  \E req \in requests, fail \in faults, paid \in charges :
    CreatePaymentBegin(u, req, fail, paid)

---------------------------------------------------------------------------
(* cancel-subscription: CancelSubscription *)

CancelFaults == {"none", "subscriptions.update"}

\* a cancellation that marks the row and leaves the remote subscription renewing
CancelOutcomeLocalOnly(u, subscriptionId, fail) ==
  LET op == "cancel-subscription"
  IN  IF u = Anon THEN
        Thrown(op, u, "Unauthorized", "none", {}, subscriptions, remoteSubs, customers)
      ELSE IF ~OwnedRow(u, subscriptionId) THEN
        Thrown(op, u, "SubscriptionNotFound", "none", {}, subscriptions, remoteSubs, customers)
      ELSE IF subscriptions[subscriptionId].stripe_subscription_id = NoId THEN
        Thrown(op, u, "NoStripeSubscription", "none", {}, subscriptions, remoteSubs, customers)
      ELSE
        Returned(op, u, "ok", {},
                 UpdateRow(subscriptions, subscriptionId,
                           [cancel_at_period_end |-> TRUE, status |-> "cancelled"]),
                 remoteSubs, customers)

CancelOutcome(u, subscriptionId, fail) ==
  LET op == "cancel-subscription"
      currentSub == subscriptions[subscriptionId]
      sid == currentSub.stripe_subscription_id
      params == [NoUpdate EXCEPT !.cancel = "true"]
  IN  IF u = Anon THEN
        Thrown(op, u, "Unauthorized", "none", {}, subscriptions, remoteSubs, customers)
      ELSE IF ~OwnedRow(u, subscriptionId) THEN
        Thrown(op, u, "SubscriptionNotFound", "none", {}, subscriptions, remoteSubs, customers)
      ELSE IF sid = NoId THEN
        Thrown(op, u, "NoStripeSubscription", "none", {}, subscriptions, remoteSubs, customers)
      ELSE IF \/ fail = "subscriptions.update"
              \/ ~Retrievable(sid)
              \/ StripeUpdateRejected(remoteSubs[sid], params) THEN
        Thrown(op, u, "RemoteProviderError", "failed", {"subscriptions.update"},
               subscriptions, remoteSubs, customers)
      ELSE
        Returned(op, u, "ok", {"subscriptions.update"},
                 UpdateRow(subscriptions, subscriptionId,
                           [cancel_at_period_end |-> TRUE, status |-> "cancelled"]),
                 [remoteSubs EXCEPT ![sid] = StripeUpdate(remoteSubs[sid], params, TRUE)],
                 customers)

\* the subscriptionId of a request body: a row id, or one that names no row
RowIds == 1..(Len(subscriptions) + 1)

CancelStep(u, subscriptionId, fail) ==
  Commit(u, CancelOutcome(u, subscriptionId, fail), Deferred(u))

CancelSubscription(u, faults) ==
  \E subscriptionId \in RowIds, fail \in faults :
    CancelStep(u, subscriptionId, fail)

---------------------------------------------------------------------------
(* change-plan *)

\* PLAN_HIERARCHY[p] || 0
PlanLevel(p) ==
  CASE p = "trial" -> 0
    [] p = "monthly" -> 1
    [] p = "semiannual" -> 2
    [] p = "annual" -> 3
    [] OTHER -> 0

IsUpgrade(current, new) == PlanLevel(new) > PlanLevel(current)

HasIntervalChange(current, new) ==
  \/ current = "monthly" /\ new # "monthly"
  \/ current # "monthly" /\ new = "monthly"
  \/ current = "semiannual" /\ new = "annual"
  \/ current = "annual" /\ new = "semiannual"

\* change-plan line 160
IsDowngrade(current, new) ==
  PlanLevel(new) < PlanLevel(current) /\ ~HasIntervalChange(current, new)

\* the updateParams decision chain of change-plan, lines 130-156
ChangePlanParams(current, new, isCurrentlyTrial) ==
  LET base == [NoUpdate EXCEPT !.price = new, !.plan_type = new]
  IN  IF isCurrentlyTrial /\ new # "trial" THEN
        [base EXCEPT !.trial_end_now = TRUE, !.proration = "create_prorations",
                     !.anchor = "now"]
      ELSE IF HasIntervalChange(current, new) THEN
        [base EXCEPT !.proration = "create_prorations", !.anchor = "now"]
      ELSE IF IsUpgrade(current, new) THEN
        [base EXCEPT !.proration = "create_prorations", !.anchor = "unchanged"]
      ELSE
        [base EXCEPT !.proration = "none", !.anchor = "unchanged"]

\* (latestInvoice.payment_intent as any)?.client_secret of lines 103-104 and
\* 177-178: payment_intent is the PaymentIntent object only when the retrieval
\* asks for it with `expand`; otherwise it is the id string (or null), which
\* has no client_secret property
NoSecret == "undefined"
ClientSecretOf(expand) == IF expand THEN "pi_secret" ELSE NoSecret

\* the body of the response of change-plan, lines 106-110 and 180-203
ChangePlanBody(requiresPayment, clientSecret) ==
  [requiresPayment |-> requiresPayment, clientSecret |-> clientSecret]

ChangePlanFaults ==
  {"none", "paymentMethods.attach", "already attached", "subscriptions.retrieve",
   "subscriptions.create", "subscriptions.update", "invoices.retrieve"}

ChangePlanOutcome(u, req, fail, paid) ==
  LET op == "change-plan"
      newPlanType == req.newPlanType
      pm == req.paymentMethodId
      currentSub == subscriptions[RowOf(u)]
      stripeCustomerId == currentSub.stripe_customer_id
      c1 == IF pm = NoPm THEN {} ELSE {"paymentMethods.attach"}
      stripeSubscriptionId == currentSub.stripe_subscription_id
      c2 == c1 \cup {"subscriptions.retrieve"}
      stripeSubscription == remoteSubs[stripeSubscriptionId]
      stripeStatus == stripeSubscription.status
      isCanceled == stripeStatus = "canceled"
      isExpired == ToISO(stripeSubscription.current_period_end) <= ToISO(now)
      isCurrentlyTrial == currentSub.plan_type = "trial" \/ stripeStatus = "trialing"
      \* lines 82-101
      newSubscription ==
        StripeCreate([customer |-> stripeCustomerId, price |-> newPlanType,
                      trial_period_days |-> FALSE, trial_end |-> 0,
                      cancel_at_period_end |-> FALSE,
                      user_id |-> u, plan_type |-> newPlanType], paid)
      recreated ==
        UpdateRow(subscriptions, RowOf(u),
          [plan_type |-> newPlanType, status |-> newSubscription.status,
           stripe_subscription_id |-> Len(remoteSubs) + 1,
           current_period_start |-> ToISO(newSubscription.current_period_start),
           current_period_end |-> ToISO(newSubscription.current_period_end),
           cancel_at_period_end |-> FALSE])
      \* lines 113-174
      isUpgrade == IsUpgrade(currentSub.plan_type, newPlanType)
      hasIntervalChange == HasIntervalChange(currentSub.plan_type, newPlanType)
      updateParams == ChangePlanParams(currentSub.plan_type, newPlanType, isCurrentlyTrial)
      updatedSubscription == StripeUpdate(stripeSubscription, updateParams, paid)
      isDowngrade == IsDowngrade(currentSub.plan_type, newPlanType)
      dbUpdate ==
        LET base ==
              [status |-> updatedSubscription.status,
               current_period_start |-> ToISO(updatedSubscription.current_period_start),
               current_period_end |-> ToISO(updatedSubscription.current_period_end),
               cancel_at_period_end |-> FALSE]
        IN  IF ~isDowngrade THEN [plan_type |-> newPlanType] @@ base ELSE base
      changed == UpdateRow(subscriptions, RowOf(u), dbUpdate)
      changedRemote == [remoteSubs EXCEPT ![stripeSubscriptionId] = updatedSubscription]
      \* lines 103-104 and 177-178: stripe.invoices.retrieve(id), no expand
      clientSecret == ClientSecretOf(FALSE)
  IN  IF u = Anon THEN
        Thrown(op, u, "Unauthorized", "none", {}, subscriptions, remoteSubs, customers)
      ELSE IF ~req.newPriceId \/ newPlanType = NoPlan THEN
        Thrown(op, u, "MissingParameters", "none", {}, subscriptions, remoteSubs, customers)
      ELSE IF ~HasRow(u) THEN
        Thrown(op, u, "SubscriptionNotFound", "none", {}, subscriptions, remoteSubs, customers)
      ELSE IF stripeCustomerId = NoId THEN
        Thrown(op, u, "NoStripeCustomer", "none", {}, subscriptions, remoteSubs, customers)
      ELSE IF pm # NoPm /\ fail = "paymentMethods.attach" THEN
        Thrown(op, u, "RemoteProviderError", "none", c1, subscriptions, remoteSubs, customers)
      ELSE IF stripeSubscriptionId = NoId THEN
        Thrown(op, u, "NoStripeSubscription", "none", c1, subscriptions, remoteSubs, customers)
      ELSE IF fail = "subscriptions.retrieve" \/ ~Retrievable(stripeSubscriptionId) THEN
        Thrown(op, u, "RemoteProviderError", "none", c2, subscriptions, remoteSubs, customers)
      ELSE IF isCanceled /\ isExpired THEN
        IF fail = "subscriptions.create" THEN
          Thrown(op, u, "RemoteProviderError", "failed", c2 \cup {"subscriptions.create"},
                 subscriptions, remoteSubs, customers)
        ELSE IF fail = "invoices.retrieve" THEN
          Thrown(op, u, "RemoteProviderError", "ok",
                 c2 \cup {"subscriptions.create", "invoices.retrieve"},
                 recreated, Append(remoteSubs, newSubscription), customers)
        ELSE
          Issued(Returned(op, u, "ok",
                          c2 \cup {"subscriptions.create", "invoices.retrieve"},
                          recreated, Append(remoteSubs, newSubscription), customers),
                 ChangePlanBody(TRUE, clientSecret))
      ELSE
        IF \/ fail = "subscriptions.update"
           \/ StripeUpdateRejected(stripeSubscription, updateParams) THEN
          Thrown(op, u, "RemoteProviderError", "failed", c2 \cup {"subscriptions.update"},
                 subscriptions, remoteSubs, customers)
        ELSE IF isCurrentlyTrial \/ isUpgrade \/ hasIntervalChange THEN
          IF fail = "invoices.retrieve" THEN
            Issued(Thrown(op, u, "RemoteProviderError", "ok",
                          c2 \cup {"subscriptions.update", "invoices.retrieve"},
                          changed, changedRemote, customers),
                   [update |-> updateParams])
          ELSE
            Issued(Returned(op, u, "ok",
                            c2 \cup {"subscriptions.update", "invoices.retrieve"},
                            changed, changedRemote, customers),
                   [update |-> updateParams]
                   @@ ChangePlanBody(clientSecret # NoSecret, clientSecret))
        ELSE
          Issued(Returned(op, u, "ok", c2 \cup {"subscriptions.update"},
                          changed, changedRemote, customers),
                 [update |-> updateParams] @@ ChangePlanBody(FALSE, NoSecret))

\* the downgrade a change-plan invocation defers: the target plan and the start
\* of the remote period it was requested in
ChangePlanDeferred(u, req, o) ==
  IF /\ o.resp.status = 200
     /\ "subscriptions.update" \in o.resp.calls
     /\ IsDowngrade(subscriptions[RowOf(u)].plan_type, req.newPlanType)
  THEN {[target |-> req.newPlanType,
         period_start |->
           remoteSubs[subscriptions[RowOf(u)].stripe_subscription_id].current_period_start]}
  ELSE {}

ChangePlanRequests ==
  [newPlanType : Plans, paymentMethodId : {NoPm, "pm_G"}, newPriceId : {TRUE}]
  \cup {[newPlanType |-> NoPlan, paymentMethodId |-> NoPm, newPriceId |-> FALSE]}

ChangePlanStep(u, req, fail, paid) ==
  LET o == ChangePlanOutcome(u, req, fail, paid)
  IN  Commit(u, o, ChangePlanDeferred(u, req, o))

ChangePlan(u, requests, faults, charges) ==
  \E req \in requests, fail \in faults, paid \in charges :
    ChangePlanStep(u, req, fail, paid)

---------------------------------------------------------------------------
(* preview-plan-change: the dry-run pricing query of a plan change *)

\* a downgrade that is one only when the billing interval stays
IsDowngradeWithinInterval(current, new) ==
  PlanLevel(new) < PlanLevel(current) /\ ~HasIntervalChange(current, new)

\* lines 294-295 of the preview handler
PreviewIsUpgrade(current, new) == PlanLevel(new) > PlanLevel(current)
PreviewIsDowngrade(current, new) == PlanLevel(new) < PlanLevel(current)

\* lines 297-300
PreviewHasIntervalChange(current, new) ==
  \/ current = "monthly" /\ new # "monthly"
  \/ current # "monthly" /\ new = "monthly"
  \/ current = "semiannual" /\ new = "annual"
  \/ current = "annual" /\ new = "semiannual"

PreviewFaults == {"none", "subscriptions.retrieve", "invoices.retrieveUpcoming"}

\* the body of a preview: the fields the client reads, and the three flags
\* the handler resolved for the plan pair
PreviewBody(isNew, changeType, willChargeNow, currentPlan, newPlan, resolved) ==
  [isNewSubscription |-> isNew, changeType |-> changeType,
   willChargeNow |-> willChargeNow, currentPlan |-> currentPlan,
   newPlan |-> newPlan, resolved |-> resolved]

PreviewOutcome(u, req, fail) ==
  LET op == "preview-plan-change"
      newPlanType == req.newPlanType
      currentSub == subscriptions[RowOf(u)]
      c1 == {"subscriptions.retrieve"}
      stripeSubscription == remoteSubs[currentSub.stripe_subscription_id]
      stripeStatus == stripeSubscription.status
      isCanceled == stripeStatus = "canceled"
      isExpired == ToISO(stripeSubscription.current_period_end) <= ToISO(now)
      isCurrentlyTrial == currentSub.plan_type = "trial" \/ stripeStatus = "trialing"
      isUpgrade == PreviewIsUpgrade(currentSub.plan_type, newPlanType)
      isDowngrade == PreviewIsDowngrade(currentSub.plan_type, newPlanType)
      hasIntervalChange == PreviewHasIntervalChange(currentSub.plan_type, newPlanType)
      resolved == [isUpgrade |-> isUpgrade, isDowngrade |-> isDowngrade,
                   hasIntervalChange |-> hasIntervalChange]
      changeType == IF isCurrentlyTrial THEN "trial_conversion"
                    ELSE IF hasIntervalChange THEN "interval_change"
                    ELSE IF isUpgrade THEN "upgrade" ELSE ""
      unresolved == [isUpgrade |-> FALSE, isDowngrade |-> FALSE,
                     hasIntervalChange |-> FALSE]
      newSubscription(calls) ==
        Issued(Returned(op, u, "none", calls, subscriptions, remoteSubs, customers),
               PreviewBody(TRUE, "", FALSE, NoPlan, newPlanType, unresolved))
  IN  IF u = Anon THEN
        Thrown(op, u, "Unauthorized", "none", {}, subscriptions, remoteSubs, customers)
      ELSE IF ~req.newPriceId \/ newPlanType = NoPlan THEN
        Thrown(op, u, "MissingParameters", "none", {}, subscriptions, remoteSubs, customers)
      ELSE IF ~HasRow(u) \/ currentSub.stripe_subscription_id = NoId THEN
        newSubscription({})
      ELSE IF \/ fail = "subscriptions.retrieve"
              \/ ~Retrievable(currentSub.stripe_subscription_id) THEN
        Thrown(op, u, "SubscriptionNotFound", "none", c1, subscriptions, remoteSubs, customers)
      ELSE IF isCanceled /\ isExpired THEN
        newSubscription(c1)
      ELSE IF isDowngrade THEN
        Issued(Returned(op, u, "none", c1, subscriptions, remoteSubs, customers),
               PreviewBody(FALSE, "downgrade", FALSE, currentSub.plan_type,
                           newPlanType, resolved))
      ELSE IF fail = "invoices.retrieveUpcoming" THEN
        Thrown(op, u, "CouldNotCalculatePreview", "none",
               c1 \cup {"invoices.retrieveUpcoming"}, subscriptions, remoteSubs, customers)
      ELSE
        Issued(Returned(op, u, "none", c1 \cup {"invoices.retrieveUpcoming"},
                        subscriptions, remoteSubs, customers),
               PreviewBody(FALSE, changeType,
                           isCurrentlyTrial \/ isUpgrade \/ hasIntervalChange,
                           currentSub.plan_type, newPlanType, resolved))

PreviewStep(u, req, fail) == Commit(u, PreviewOutcome(u, req, fail), Deferred(u))

PreviewPlanChange(u, requests, faults) ==
  \E req \in requests, fail \in faults : PreviewStep(u, req, fail)

---------------------------------------------------------------------------
(* reactivate-subscription: ReactivateSubscription, the three variants of the
   repository.  The request's priceId is the catalog price of the row's plan. *)

ReactivateFaults ==
  {"none", "subscriptions.retrieve", "subscriptions.update", "subscriptions.create"}

\* a resumption that also restarts the billing cycle
ResumeParamsAnchored == [NoUpdate EXCEPT !.cancel = "false", !.anchor = "now"]

\* { cancel_at_period_end: false, default_payment_method: paymentMethodId }
ResumeParams == [NoUpdate EXCEPT !.cancel = "false"]

\* starterPackService.ts lines 292-341 (the earlier variant)
ReactivateEarlierOutcome(u, subscriptionId, fail, paid) ==
  LET op == "reactivate-subscription (earlier)"
      currentSub == subscriptions[subscriptionId]
      sid == currentSub.stripe_subscription_id
      stripeStatus ==
        IF sid = NoId \/ fail = "subscriptions.retrieve" \/ ~Retrievable(sid)
        THEN "missing" ELSE remoteSubs[sid].status
      c1 == {"subscriptions.retrieve"}
      periodEnd == GetTime(currentSub.current_period_end)
      trialEndTimestamp == IF periodEnd > ToISO(now) THEN FloorSec(periodEnd) ELSE 0
      newSub ==
        StripeCreate([customer |-> currentSub.stripe_customer_id,
                      price |-> currentSub.plan_type,
                      trial_period_days |-> FALSE, trial_end |-> trialEndTimestamp,
                      cancel_at_period_end |-> FALSE,
                      user_id |-> u, plan_type |-> currentSub.plan_type], paid)
      write(newStripeSubscriptionId) ==
        UpdateRow(subscriptions, subscriptionId,
          [status |-> "active", cancel_at_period_end |-> FALSE,
           stripe_subscription_id |-> newStripeSubscriptionId])
  IN  IF u = Anon THEN
        Thrown(op, u, "Unauthorized", "none", {}, subscriptions, remoteSubs, customers)
      ELSE IF ~OwnedRow(u, subscriptionId) THEN
        Thrown(op, u, "SubscriptionNotFound", "none", {}, subscriptions, remoteSubs, customers)
      ELSE IF stripeStatus \in {"active", "trialing"} THEN
        IF fail = "subscriptions.update" THEN
          Thrown(op, u, "RemoteProviderError", "failed", c1 \cup {"subscriptions.update"},
                 subscriptions, remoteSubs, customers)
        ELSE
          Returned(op, u, "ok", c1 \cup {"subscriptions.update"}, write(sid),
                   [remoteSubs EXCEPT ![sid] = StripeUpdate(remoteSubs[sid], ResumeParams, paid)],
                   customers)
      ELSE
        IF fail = "subscriptions.create" THEN
          Thrown(op, u, "RemoteProviderError", "failed", c1 \cup {"subscriptions.create"},
                 subscriptions, remoteSubs, customers)
        ELSE
          Returned(op, u, "ok", c1 \cup {"subscriptions.create"},
                   write(Len(remoteSubs) + 1), Append(remoteSubs, newSub), customers)

\* starterPackService.ts lines 351-435 (the full variant)
ReactivateFullOutcome(u, subscriptionId, fail, paid) ==
  LET op == "reactivate-subscription (full)"
      currentSub == subscriptions[subscriptionId]
      sid == currentSub.stripe_subscription_id
      periodEnd == GetTime(currentSub.current_period_end)
      isExpired == periodEnd <= ToISO(now)
      c1 == {"subscriptions.retrieve"}
      stripeStatus == remoteSubs[sid].status
      remainingSeconds == FloorSec(periodEnd - ToISO(now))
      trialEnd == IF remainingSeconds > 0 THEN FloorSec(periodEnd) ELSE 0
      newSubscription ==
        StripeCreate([customer |-> currentSub.stripe_customer_id,
                      price |-> currentSub.plan_type,
                      trial_period_days |-> FALSE, trial_end |-> trialEnd,
                      cancel_at_period_end |-> FALSE,
                      user_id |-> u, plan_type |-> currentSub.plan_type], paid)
  IN  IF u = Anon THEN
        Thrown(op, u, "Unauthorized", "none", {}, subscriptions, remoteSubs, customers)
      ELSE IF ~OwnedRow(u, subscriptionId) THEN
        Thrown(op, u, "SubscriptionNotFound", "none", {}, subscriptions, remoteSubs, customers)
      ELSE IF isExpired THEN
        Thrown(op, u, "SubscriptionExpired", "none", {}, subscriptions, remoteSubs, customers)
      ELSE IF sid = NoId THEN
        Thrown(op, u, "NoStripeSubscription", "none", {}, subscriptions, remoteSubs, customers)
      ELSE IF fail = "subscriptions.retrieve" \/ ~Retrievable(sid) THEN
        Thrown(op, u, "RemoteProviderError", "none", c1, subscriptions, remoteSubs, customers)
      ELSE IF stripeStatus \in {"active", "trialing"} THEN
        IF fail = "subscriptions.update" THEN
          Thrown(op, u, "RemoteProviderError", "failed", c1 \cup {"subscriptions.update"},
                 subscriptions, remoteSubs, customers)
        ELSE
          Returned(op, u, "ok", c1 \cup {"subscriptions.update"},
                   UpdateRow(subscriptions, subscriptionId,
                             [status |-> "active", cancel_at_period_end |-> FALSE]),
                   [remoteSubs EXCEPT ![sid] = StripeUpdate(remoteSubs[sid], ResumeParams, paid)],
                   customers)
      ELSE IF stripeStatus = "canceled" THEN
        IF fail = "subscriptions.create" THEN
          Thrown(op, u, "RemoteProviderError", "failed", c1 \cup {"subscriptions.create"},
                 subscriptions, remoteSubs, customers)
        ELSE
          Returned(op, u, "ok", c1 \cup {"subscriptions.create"},
                   UpdateRow(subscriptions, subscriptionId,
                     [status |-> "active",
                      stripe_subscription_id |-> Len(remoteSubs) + 1,
                      cancel_at_period_end |-> FALSE,
                      current_period_start |-> ToISO(newSubscription.current_period_start),
                      current_period_end |-> ToISO(newSubscription.current_period_end)]),
                   Append(remoteSubs, newSubscription), customers)
      ELSE
        Thrown(op, u, "CannotReactivate", "none", c1, subscriptions, remoteSubs, customers)

\* the third variant (source part_005 lines 405-459)
ReactivateResumeOutcome(u, subscriptionId, fail, paid) ==
  LET op == "reactivate-subscription (resume)"
      currentSub == subscriptions[subscriptionId]
      sid == currentSub.stripe_subscription_id
      periodEnd == GetTime(currentSub.current_period_end)
      isExpired == periodEnd <= ToISO(now)
      c1 == {"subscriptions.retrieve"}
      stripeStatus == remoteSubs[sid].status
  IN  IF u = Anon THEN
        Thrown(op, u, "Unauthorized", "none", {}, subscriptions, remoteSubs, customers)
      ELSE IF ~OwnedRow(u, subscriptionId) THEN
        Thrown(op, u, "SubscriptionNotFound", "none", {}, subscriptions, remoteSubs, customers)
      ELSE IF isExpired THEN
        Thrown(op, u, "SubscriptionExpired", "none", {}, subscriptions, remoteSubs, customers)
      ELSE IF sid = NoId \/ fail = "subscriptions.retrieve" \/ ~Retrievable(sid) THEN
        Thrown(op, u, "RemoteProviderError", "none", c1, subscriptions, remoteSubs, customers)
      ELSE IF stripeStatus \in {"active", "trialing", "canceled"} THEN
        IF \/ fail = "subscriptions.update"
           \/ StripeUpdateRejected(remoteSubs[sid], ResumeParams) THEN
          Thrown(op, u, "RemoteProviderError", "failed", c1 \cup {"subscriptions.update"},
                 subscriptions, remoteSubs, customers)
        ELSE
          Returned(op, u, "ok", c1 \cup {"subscriptions.update"},
                   UpdateRow(subscriptions, subscriptionId,
                             [status |-> "active", cancel_at_period_end |-> FALSE]),
                   [remoteSubs EXCEPT ![sid] = StripeUpdate(remoteSubs[sid], ResumeParams, paid)],
                   customers)
      ELSE
        Thrown(op, u, "CannotReactivate", "none", c1, subscriptions, remoteSubs, customers)

ReactivateOps ==
  {"reactivate-subscription (earlier)", "reactivate-subscription (full)",
   "reactivate-subscription (resume)"}

ReactivateEarlierStep(u, subscriptionId, fail, paid) ==
  Commit(u, ReactivateEarlierOutcome(u, subscriptionId, fail, paid), Deferred(u))

ReactivateFullStep(u, subscriptionId, fail, paid) ==
  Commit(u, ReactivateFullOutcome(u, subscriptionId, fail, paid), Deferred(u))

ReactivateResumeStep(u, subscriptionId, fail, paid) ==
  Commit(u, ReactivateResumeOutcome(u, subscriptionId, fail, paid), Deferred(u))

ReactivateEarlier(u, faults, charges) ==
  \E subscriptionId \in RowIds, fail \in faults, paid \in charges :
    ReactivateEarlierStep(u, subscriptionId, fail, paid)

ReactivateFull(u, faults, charges) ==
  \E subscriptionId \in RowIds, fail \in faults, paid \in charges :
    ReactivateFullStep(u, subscriptionId, fail, paid)

ReactivateResume(u, faults, charges) ==
  \E subscriptionId \in RowIds, fail \in faults, paid \in charges :
    ReactivateResumeStep(u, subscriptionId, fail, paid)

---------------------------------------------------------------------------
(* The provider's own clockwork *)

Tick ==
  /\ now < MaxTime
  /\ now' = now + 1
  /\ UNCHANGED <<subscriptions, invoices, remoteSubs, remoteInvoices, customers,
                 subHist, response, lastEvent, deferred, inflight>>

\* a period that ended rolls over: a subscription set to cancel ends
\* (`canceled`), any other live one is renewed for the next interval
RolledOver(s) ==
  IF s.cancel_at_period_end
  THEN [s EXCEPT !.status = "canceled"]
  ELSE [s EXCEPT !.status = "active",
                 !.current_period_start = s.current_period_end,
                 !.current_period_end = s.current_period_end + s.interval]

RemoteRollover ==
  \E i \in DOMAIN remoteSubs :
    /\ remoteSubs[i].status \in {"active", "trialing", "past_due"}
    /\ remoteSubs[i].current_period_end <= now
    /\ remoteSubs' = [remoteSubs EXCEPT ![i] = RolledOver(remoteSubs[i])]
    /\ lastEvent' = {}
    /\ UNCHANGED <<now, subscriptions, invoices, remoteInvoices, customers,
                   subHist, response, deferred, inflight>>

\* the provider ends a subscription at once (a cancellation from its dashboard,
\* or after the last payment retry): the period bounds stay as they are
RemoteCancel ==
  \E i \in DOMAIN remoteSubs :
    /\ remoteSubs[i].status \notin {"canceled", "incomplete_expired"}
    /\ Cardinality({j \in DOMAIN remoteSubs :
                      /\ remoteSubs[j].user_id = remoteSubs[i].user_id
                      /\ remoteSubs[j].status = "canceled"}) < MaxDead
    /\ remoteSubs' = [remoteSubs EXCEPT ![i].status = "canceled"]
    /\ lastEvent' = {}
    /\ UNCHANGED <<now, subscriptions, invoices, remoteInvoices, customers,
                   subHist, response, deferred, inflight>>

\* the event the provider emitted for the present state of a subscription is
\* held back: it stays deliverable after the subscription has moved on
DelayEvent ==
  \E i \in DOMAIN remoteSubs :
    /\ Cardinality(subHist) < MaxHist
    /\ Snapshot(remoteSubs, i) \notin subHist
    /\ subHist' = subHist \cup {Snapshot(remoteSubs, i)}
    /\ UNCHANGED <<now, subscriptions, invoices, remoteSubs, remoteInvoices,
                   customers, response, lastEvent, deferred, inflight>>

---------------------------------------------------------------------------
(* The webhook: Webhook Sync *)

\* the database function handle_subscription_webhook: an upsert of the user's
\* row with the values passed
HandleSubscriptionWebhook(subs, p) ==
  LET fields ==
        [plan_type |-> p.plan_type, status |-> p.status,
         stripe_subscription_id |-> p.stripe_subscription_id,
         stripe_customer_id |-> p.stripe_customer_id,
         current_period_start |-> p.period_start,
         current_period_end |-> p.period_end]
      rows == {i \in DOMAIN subs : subs[i].user_id = p.user_id}
  IN  IF rows = {}
      THEN InsertRow(subs, [user_id |-> p.user_id] @@ fields)
      ELSE [i \in DOMAIN subs |->
              IF i \in rows THEN UpdateRow(subs, i, fields)[i] ELSE subs[i]]

\* 60 * 60 * 24: the length of a day in units of the remote clock.  The
\* periods given to the period calculator on its own are counted in quarter
\* days, so that a year of them in milliseconds stays within TLC's integers
DayLength == 4

\* Math.floor(x / d), the division that drops the fraction of a day
FloorDiv(x, d) == x \div d
\* Math.ceil(x / d)
CeilDiv(x, d) == -((-x) \div d)

\* calculatePeriodFromStripe
CalculatePeriodFromStripe(subscription, planType) ==
  LET start == ToISO(subscription.current_period_start)
      end == ToISO(subscription.current_period_end)
      durationDays == CeilDiv(GetTime(end) - GetTime(start), 1000 * DayLength)
      isAccurate ==
        CASE planType = "monthly" -> durationDays >= 28 /\ durationDays <= 31
          [] planType = "semiannual" -> durationDays >= 180 /\ durationDays <= 186
          [] planType = "annual" -> durationDays >= 360 /\ durationDays <= 370
          [] planType = "trial" -> durationDays >= 28 /\ durationDays <= 32
          [] OTHER -> TRUE
  IN  [start |-> start, end |-> end, durationDays |-> durationDays,
       isAccurate |-> isAccurate]

\* calculatePeriodForPayment: from the clock, by the plan's calendar offset
ValidPlan(planType) == planType \in Plans
CalculatePeriodForPayment(planType) ==
  [start |-> ToISO(now), end |-> ToISO(now + PlanMonths(planType))]

\* subscription.metadata.plan_type || 'monthly'
PlanOrMonthly(planType) == IF planType = NoPlan THEN "monthly" ELSE planType

\* the status switch of handleSubscriptionUpdated
MapStatus(status) ==
  CASE status \in {"active", "trialing"} -> "active"
    [] status = "past_due" -> "past_due"
    [] status \in {"canceled", "cancelled"} -> "canceled"
    [] status \in {"unpaid", "incomplete", "incomplete_expired"} -> status
    [] OTHER -> "active"

WebhookResult(subs, invs, action, success, calls) ==
  [subs |-> subs, invs |-> invs,
   resp |-> Response(action, NoUser, IF success THEN 200 ELSE 400,
                     IF success THEN "none" ELSE "ProcessingFailed", "none", calls)]

\* the call of handle_subscription_webhook every subscription-object branch ends in
SyncFromSubscription(subscription, status) ==
  LET period == CalculatePeriodFromStripe(subscription,
                                          PlanOrMonthly(subscription.plan_type))
  IN  HandleSubscriptionWebhook(subscriptions,
        [user_id |-> subscription.user_id,
         plan_type |-> PlanOrMonthly(subscription.plan_type),
         status |-> status,
         stripe_subscription_id |-> subscription.id,
         stripe_customer_id |-> subscription.customer,
         period_start |-> period.start, period_end |-> period.end])

HandleSubscriptionUpdated(subscription) ==
  IF subscription.user_id = NoUser
  THEN WebhookResult(subscriptions, invoices, "subscription_updated_no_user_metadata", TRUE, {})
  ELSE WebhookResult(SyncFromSubscription(subscription, MapStatus(subscription.status)),
                     invoices, "subscription_updated", TRUE, {})

HandleSubscriptionDeleted(subscription) ==
  IF subscription.user_id = NoUser
  THEN WebhookResult(subscriptions, invoices, "subscription_deleted_no_user_metadata", TRUE, {})
  ELSE WebhookResult(SyncFromSubscription(subscription, "canceled"),
                     invoices, "subscription_deleted", TRUE, {})

\* persistInvoiceToDatabase: the owner is the first row of the invoice's customer
InvoiceOwners(invoice) ==
  {i \in DOMAIN subscriptions :
     invoice.customer # NoId /\ subscriptions[i].stripe_customer_id = invoice.customer}

\* a persister that inserts the snapshot without a conflict target
PersistInvoiceAppend(invoice) ==
  LET owner == CHOOSE i \in InvoiceOwners(invoice) : \A j \in InvoiceOwners(invoice) : i <= j
  IN  invoices \cup {[stripe_invoice_id |-> invoice.id,
                      user_id |-> subscriptions[owner].user_id,
                      subscription_id |-> owner,
                      status |-> invoice.status,
                      raw |-> invoice]}

PersistInvoiceToDatabase(invoice) ==
  LET owner == CHOOSE i \in InvoiceOwners(invoice) : \A j \in InvoiceOwners(invoice) : i <= j
      invoiceRow ==
        [stripe_invoice_id |-> invoice.id,
         user_id |-> subscriptions[owner].user_id,
         subscription_id |-> owner,
         status |-> invoice.status,
         raw |-> invoice]
  IN  {r \in invoices : r.stripe_invoice_id # invoice.id} \cup {invoiceRow}

\* a status taken from the remote subscription whatever the event
InvoiceStatusFromRemote(type, invoice, subscription) == subscription.status

\* handleInvoiceEvent and handleInvoicePaymentFailed differ in the status they write
InvoiceStatus(type, invoice, subscription) ==
  IF type = "invoice.payment_failed" THEN "past_due"
  ELSE IF invoice.status = "paid" THEN "active"
  ELSE IF invoice.status = "open" THEN "past_due"
  ELSE subscription.status

\* an invoice handler that acknowledges an invoice without owner
HandleInvoiceLenient(type, invoice, fail) ==
  LET failed == IF type = "invoice.payment_failed"
                THEN "invoice_payment_failed" ELSE "invoice_processing_failed"
      persisted == PersistInvoiceToDatabase(invoice)
      subscription == Snapshot(remoteSubs, invoice.subscription)
      kept == IF InvoiceOwners(invoice) = {} THEN invoices ELSE persisted
  IN  IF invoice.subscription = NoId THEN
        WebhookResult(subscriptions, kept, "invoice_persisted_no_subscription", TRUE, {})
      ELSE IF fail \/ ~Retrievable(invoice.subscription) THEN
        WebhookResult(subscriptions, kept, failed, FALSE, {"subscriptions.retrieve"})
      ELSE
        WebhookResult(
          SyncFromSubscription(subscription, InvoiceStatus(type, invoice, subscription)),
          kept, "invoice_processed", TRUE, {"subscriptions.retrieve"})

HandleInvoice(type, invoice, fail) ==
  LET failed == IF type = "invoice.payment_failed"
                THEN "invoice_payment_failed" ELSE "invoice_processing_failed"
      persisted == PersistInvoiceToDatabase(invoice)
      subscription == Snapshot(remoteSubs, invoice.subscription)
  IN  IF InvoiceOwners(invoice) = {} THEN
        WebhookResult(subscriptions, invoices, failed, FALSE, {})
      ELSE IF invoice.subscription = NoId THEN
        WebhookResult(subscriptions, persisted, "invoice_persisted_no_subscription", TRUE, {})
      ELSE IF fail \/ ~Retrievable(invoice.subscription) THEN
        WebhookResult(subscriptions, persisted, failed, FALSE, {"subscriptions.retrieve"})
      ELSE IF subscription.user_id = NoUser THEN
        WebhookResult(subscriptions, persisted, "invoice_persisted_no_user_metadata", TRUE,
                      {"subscriptions.retrieve"})
      ELSE
        WebhookResult(
          SyncFromSubscription(subscription, InvoiceStatus(type, invoice, subscription)),
          persisted,
          IF type = "invoice.payment_failed" THEN "invoice_payment_failed"
          ELSE "invoice_processed",
          TRUE, {"subscriptions.retrieve"})

HandlePaymentSucceeded(paymentIntent) ==
  IF paymentIntent.user_id = NoUser \/ paymentIntent.plan_type = NoPlan THEN
    WebhookResult(subscriptions, invoices, "payment_succeeded_no_metadata", TRUE, {})
  ELSE IF ~ValidPlan(paymentIntent.plan_type) THEN
    WebhookResult(subscriptions, invoices, "payment_succeeded", FALSE, {})
  ELSE
    LET period == CalculatePeriodForPayment(paymentIntent.plan_type)
    IN  WebhookResult(
          HandleSubscriptionWebhook(subscriptions,
            [user_id |-> paymentIntent.user_id, plan_type |-> paymentIntent.plan_type,
             status |-> "active", stripe_subscription_id |-> NoId,
             stripe_customer_id |-> paymentIntent.customer,
             period_start |-> period.start, period_end |-> period.end]),
          invoices, "payment_succeeded", TRUE, {})

HandleCheckoutCompleted(session, fail) ==
  LET fromStripe == session.mode = "subscription" /\ session.subscription # NoId
      period == IF fromStripe
                THEN CalculatePeriodFromStripe(remoteSubs[session.subscription],
                                               session.plan_type)
                ELSE CalculatePeriodForPayment(session.plan_type)
      calls == IF fromStripe THEN {"subscriptions.retrieve"} ELSE {}
  IN  IF session.user_id = NoUser \/ session.plan_type = NoPlan THEN
        WebhookResult(subscriptions, invoices, "checkout_completed", FALSE, {})
      ELSE IF fromStripe /\ (fail \/ ~Retrievable(session.subscription)) THEN
        WebhookResult(subscriptions, invoices, "checkout_completed", FALSE, calls)
      ELSE IF ~fromStripe /\ ~ValidPlan(session.plan_type) THEN
        WebhookResult(subscriptions, invoices, "checkout_completed", FALSE, calls)
      ELSE
        WebhookResult(
          HandleSubscriptionWebhook(subscriptions,
            [user_id |-> session.user_id, plan_type |-> session.plan_type,
             status |-> "active", stripe_subscription_id |-> session.subscription,
             stripe_customer_id |-> session.customer,
             period_start |-> period.start, period_end |-> period.end]),
          invoices, "checkout_completed", TRUE, calls)

\* the dispatch switch of the webhook endpoint
Dispatch(event, fail) ==
  CASE event.type = "checkout.session.completed" -> HandleCheckoutCompleted(event.object, fail)
    [] event.type = "payment_intent.succeeded" -> HandlePaymentSucceeded(event.object)
    [] event.type \in {"invoice.payment_succeeded", "invoice.finalized", "invoice.created"} ->
         HandleInvoice(event.type, event.object, fail)
    [] event.type = "invoice.payment_failed" -> HandleInvoice(event.type, event.object, fail)
    [] event.type = "customer.subscription.updated" -> HandleSubscriptionUpdated(event.object)
    [] event.type = "customer.subscription.deleted" -> HandleSubscriptionDeleted(event.object)
    [] OTHER -> WebhookResult(subscriptions, invoices, "ignored", TRUE, {})

SubscriptionEventTypes == {"customer.subscription.updated", "customer.subscription.deleted"}

\* one delivery of event, verified, to the webhook endpoint
Webhook(event, fail) ==
  LET r == Dispatch(event, fail)
  IN  /\ subscriptions' = r.subs
      /\ invoices' = r.invs
      /\ response' = r.resp
      /\ lastEvent' = {event}
      /\ UNCHANGED <<now, remoteSubs, remoteInvoices, customers, subHist, deferred,
                     inflight>>

\* the stripe-signature header of a request: missing, present and not the
\* signature of the body under the endpoint's secret, or present and valid
Signatures == {"absent", "forged", "valid"}

\* a request the endpoint answers before it has an event: nothing is
\* dispatched, the answer is the Response of the early return or of the catch
Rejected(status, error) ==
  /\ response' = Response("webhook", NoUser, status, error, "none", {})
  /\ lastEvent' = {}
  /\ UNCHANGED <<now, subscriptions, invoices, remoteSubs, remoteInvoices,
                 customers, subHist, deferred, inflight>>

\* the webhook endpoint, lines 229-337: a request with header `signature`
\* whose body is `event`, while STRIPE_WEBHOOK_SECRET is set or not;
\* constructEventAsync throws on a signature that does not verify
WebhookEndpoint(signature, webhookSecret, event, fail) ==
  IF signature = "absent" THEN Rejected(400, "NoSignature")
  ELSE IF ~webhookSecret THEN Rejected(500, "WebhookSecretNotConfigured")
  ELSE IF signature # "valid" THEN Rejected(400, "SignatureVerificationFailed")
  ELSE Webhook(event, fail)

\* the subscription payloads a delivery may carry: any retained state of a
\* subscription (late, repeated or out of order) or its present state
SubscriptionPayloads ==
  subHist \cup {Snapshot(remoteSubs, i) : i \in DOMAIN remoteSubs}

\* the invoice object as the event of that type carried it
InvoicePayloadStatus(type) ==
  CASE type = "invoice.created" -> "draft"
    [] type = "invoice.finalized" -> "open"
    [] type = "invoice.payment_failed" -> "open"
    [] OTHER -> "paid"

InvoicePayload(i, type) ==
  [id |-> i, customer |-> remoteInvoices[i].customer,
   subscription |-> remoteInvoices[i].subscription,
   status |-> InvoicePayloadStatus(type)]

DeliverSubscriptionUpdated ==
  \E subscription \in SubscriptionPayloads :
    Webhook([type |-> "customer.subscription.updated", object |-> subscription], FALSE)

DeliverSubscriptionDeleted ==
  \E subscription \in SubscriptionPayloads :
    /\ subscription.status = "canceled"
    /\ Webhook([type |-> "customer.subscription.deleted", object |-> subscription], FALSE)

DeliverInvoiceEvent ==
  \E i \in DOMAIN remoteInvoices, fail \in BOOLEAN,
     type \in {"invoice.payment_succeeded", "invoice.finalized", "invoice.created"} :
    /\ InvoicePayloadStatus(type) \in remoteInvoices[i].statuses
    /\ Webhook([type |-> type, object |-> InvoicePayload(i, type)], fail)

DeliverInvoicePaymentFailed ==
  \E i \in DOMAIN remoteInvoices, fail \in BOOLEAN :
    /\ "paid" \notin remoteInvoices[i].statuses
    /\ Webhook([type |-> "invoice.payment_failed",
                object |-> InvoicePayload(i, "invoice.payment_failed")], fail)

\* a request to the endpoint whose body is a subscription event, with a valid
\* signature, a signature that does not verify or none
PostWebhook ==
  \E signature \in Signatures, webhookSecret \in BOOLEAN,
     subscription \in SubscriptionPayloads, type \in SubscriptionEventTypes :
    WebhookEndpoint(signature, webhookSecret,
                    [type |-> type, object |-> subscription], FALSE)

\* the subscriptions the period calculator is applied to on its own: every
\* plan, every start and every length up to MaxPeriodDays in quarter days
PeriodInputs ==
  [current_period_start : 0..MaxStart,
   length : 0..(MaxPeriodDays * DayLength),
   plan_type : Plans]

PeriodSubscription(in) ==
  [current_period_start |-> in.current_period_start,
   current_period_end |-> in.current_period_start + in.length,
   plan_type |-> in.plan_type]

\* calculatePeriodFromStripe applied to the subscription held in lastEvent
ApplyPeriod ==
  /\ response.op = "none"
  /\ \E event \in lastEvent :
       response' =
         [period |-> CalculatePeriodFromStripe(event.object, event.object.plan_type)]
         @@ Response("calculatePeriodFromStripe", NoUser, 200, "none", "none", {})
  /\ UNCHANGED <<now, subscriptions, invoices, remoteSubs, remoteInvoices,
                 customers, subHist, lastEvent, deferred, inflight>>

\* the customer a one-time payment of u is made for
CustomerOf(u) ==
  IF u \in Users /\ HasRow(u) THEN subscriptions[RowOf(u)].stripe_customer_id ELSE NoId

\* metadata of one-time payments is whatever the client sent
MetadataPlans == {"monthly", "annual", NoPlan, "lifetime"}

DeliverPaymentSucceeded(u) ==
  \E planType \in MetadataPlans :
    Webhook([type |-> "payment_intent.succeeded",
             object |-> [user_id |-> u, plan_type |-> planType,
                         customer |-> CustomerOf(u)]], FALSE)

DeliverCheckoutCompleted(u) ==
  \E planType \in MetadataPlans, fail \in BOOLEAN,
     sub \in {NoId} \cup {i \in DOMAIN remoteSubs : remoteSubs[i].user_id = u} :
    Webhook([type |-> "checkout.session.completed",
             object |-> [user_id |-> u, plan_type |-> planType,
                         customer |-> CustomerOf(u), subscription |-> sub,
                         mode |-> IF sub = NoId THEN "payment" ELSE "subscription"]],
            fail)

---------------------------------------------------------------------------
(* Specifications *)

Init ==
  /\ now = 0
  /\ subscriptions = <<>>
  /\ invoices = {}
  /\ remoteSubs = <<>>
  /\ remoteInvoices = <<>>
  /\ customers = 0
  /\ subHist = {}
  /\ response = Response("none", NoUser, 200, "none", "none", {})
  /\ lastEvent = {}
  /\ deferred = [u \in Users |-> {}]
  /\ inflight = {}

NoFault == {"none"}
Charged == {TRUE}
Callers == {"u1", Anon}

\* Spec: the requests of one user and of an unauthenticated caller to the
\* edge functions, every remote call liable to fail, with the provider's
\* clock and rollovers
LifeRequests ==
  [planType : {"annual"}, isTrial : BOOLEAN, autoRenew : {TRUE},
   paymentMethodId : {NoPm}, priceId : BOOLEAN]

LifeChanges ==
  [newPlanType : {"trial", "monthly"}, paymentMethodId : {NoPm}, newPriceId : {TRUE}]

Next ==
  \/ \E u \in Callers : CreatePayment(u, LifeRequests, CreatePaymentFaults, Charged)
  \/ \E u \in Callers : ChangePlan(u, LifeChanges, ChangePlanFaults, Charged)
  \/ \E u \in Callers : CancelSubscription(u, CancelFaults)
  \/ \E u \in Callers : ReactivateEarlier(u, ReactivateFaults, Charged)
  \/ \E u \in Callers : ReactivateFull(u, ReactivateFaults, Charged)
  \/ \E u \in Callers : ReactivateResume(u, ReactivateFaults, Charged)
  \/ Tick
  \/ RemoteRollover

Spec == Init /\ [][Next]_vars

\* SpecSync: one user's subscription, every remote call succeeding, and the
\* subscription events of the provider delivered late, repeated or out of order
SyncRequests ==
  [planType : {"annual"}, isTrial : BOOLEAN, autoRenew : {TRUE},
   paymentMethodId : {NoPm}, priceId : {TRUE}]

NextSync ==
  \/ CreatePayment("u1", SyncRequests, NoFault, Charged)
  \/ ChangePlan("u1", LifeChanges, NoFault, Charged)
  \/ CancelSubscription("u1", NoFault)
  \/ ReactivateFull("u1", NoFault, Charged)
  \/ Tick
  \/ RemoteRollover
  \/ DelayEvent
  \/ DeliverSubscriptionUpdated
  \/ DeliverSubscriptionDeleted

SpecSync == Init /\ [][NextSync]_vars

\* SpecPay: one user's subscription, its first charge succeeding or failing,
\* and the payment, checkout and invoice events of the provider
NextPay ==
  \/ CreatePayment("u1", SyncRequests, NoFault, BOOLEAN)
  \/ CancelSubscription("u1", NoFault)
  \/ Tick
  \/ RemoteRollover
  \/ DeliverInvoiceEvent
  \/ DeliverInvoicePaymentFailed
  \/ DeliverPaymentSucceeded("u1")
  \/ DeliverCheckoutCompleted("u1")

SpecPay == Init /\ [][NextPay]_vars

\* SpecTrial: two users asking for trials and paid plans with cards of their
\* choice, every remote call of create-payment liable to fail
TrialRequests ==
  [planType : {"monthly"}, isTrial : BOOLEAN, autoRenew : {TRUE},
   paymentMethodId : PaymentMethods \cup {NoPm}, priceId : {TRUE}]

NextTrial ==
  \/ \E u \in Users : CreatePayment(u, TrialRequests, CreatePaymentFaults, Charged)
  \/ Tick

SpecTrial == Init /\ [][NextTrial]_vars

\* SpecReact: one user's subscription, its first charge succeeding or failing,
\* cancelled by the user or ended by the provider, and the three
\* reactivate-subscription variants with every remote call liable to fail
NextReact ==
  \/ CreatePayment("u1", SyncRequests, NoFault, BOOLEAN)
  \/ CancelSubscription("u1", NoFault)
  \/ ReactivateEarlier("u1", ReactivateFaults, Charged)
  \/ ReactivateFull("u1", ReactivateFaults, Charged)
  \/ ReactivateResume("u1", ReactivateFaults, Charged)
  \/ Tick
  \/ RemoteRollover
  \/ RemoteCancel

SpecReact == Init /\ [][NextReact]_vars

\* SpecRace: one user's create-payment invocations, each in two steps so that
\* a second invocation and the provider's invoice events fall between the
\* remote calls of the first and its write; subscriptions.create is liable to fail
RaceFaults == {"none", "subscriptions.create"}

NextRace ==
  \/ CreatePaymentStart("u1", SyncRequests, RaceFaults, Charged)
  \/ CreatePaymentFinish
  \/ DeliverInvoiceEvent
  \/ Tick

SpecRace == Init /\ [][NextRace]_vars

\* SpecPlan: one user's create-payment and change-plan requests whose planType
\* and newPlanType are whatever the client sent, and the subscription events
\* carrying the plan_type metadata those requests left on the remote object
PlanRequests ==
  [planType : {"monthly", "lifetime"}, isTrial : BOOLEAN, autoRenew : {TRUE},
   paymentMethodId : {NoPm}, priceId : {TRUE}]

PlanChanges ==
  [newPlanType : {"annual", "lifetime"}, paymentMethodId : {NoPm}, newPriceId : {TRUE}]

NextPlan ==
  \/ CreatePayment("u1", PlanRequests, NoFault, Charged)
  \/ ChangePlan("u1", PlanChanges, NoFault, Charged)
  \/ DeliverSubscriptionUpdated
  \/ Tick
  \/ RemoteRollover

SpecPlan == Init /\ [][NextPlan]_vars

\* SpecChange: one user's subscription taken through every plan by
\* create-payment and change-plan, cancelled in between, every remote call
\* succeeding
ChangeRequests ==
  [planType : Plans \ {"trial"}, isTrial : BOOLEAN, autoRenew : {TRUE},
   paymentMethodId : {NoPm}, priceId : {TRUE}]

ChangeTargets ==
  [newPlanType : Plans, paymentMethodId : {NoPm}, newPriceId : {TRUE}]

NextChange ==
  \/ CreatePayment("u1", ChangeRequests, NoFault, Charged)
  \/ ChangePlan("u1", ChangeTargets, NoFault, Charged)
  \/ CancelSubscription("u1", NoFault)
  \/ Tick
  \/ RemoteRollover

SpecChange == Init /\ [][NextChange]_vars

\* SpecPreview: one user's subscription on every plan and the previews of
\* every plan change, the remote calls of the preview liable to fail
NextPreview ==
  \/ CreatePayment("u1", ChangeRequests, NoFault, Charged)
  \/ \E u \in Callers : PreviewPlanChange(u, ChangeTargets, PreviewFaults)
  \/ Tick
  \/ RemoteRollover

SpecPreview == Init /\ [][NextPreview]_vars

\* SpecHook: one user's subscription and the requests that reach the
\* webhook endpoint, with and without signature and secret
NextHook ==
  \/ CreatePayment("u1", SyncRequests, NoFault, Charged)
  \/ CancelSubscription("u1", NoFault)
  \/ PostWebhook
  \/ Tick
  \/ RemoteRollover

SpecHook == Init /\ [][NextHook]_vars

\* SpecPeriod: the period calculator on its own, applied to a subscription
\* object drawn from PeriodInputs
InitPeriod ==
  /\ now = 0
  /\ subscriptions = <<>>
  /\ invoices = {}
  /\ remoteSubs = <<>>
  /\ remoteInvoices = <<>>
  /\ customers = 0
  /\ subHist = {}
  /\ response = Response("none", NoUser, 200, "none", "none", {})
  /\ \E in \in PeriodInputs :
       lastEvent = {[type |-> "customer.subscription.updated",
                     object |-> PeriodSubscription(in)]}
  /\ deferred = [u \in Users |-> {}]
  /\ inflight = {}

SpecPeriod == InitPeriod /\ [][ApplyPeriod]_vars

\* SpecLive: one user's invocations of the four handler families, one after
\* the other, followed for one remote subscription more than MaxSubs, so
\* that a subscription created beside a live one is seen; the first charge
\* may fail, every other remote call succeeds
LiveRequests ==
  [planType : {"annual"}, isTrial : {FALSE}, autoRenew : {TRUE},
   paymentMethodId : {NoPm}, priceId : {TRUE}]

LiveChanges ==
  [newPlanType : {"monthly"}, paymentMethodId : {NoPm}, newPriceId : {TRUE}]

LiveCreatePayment ==
  \E req \in LiveRequests, fail \in {"none"}, paid \in BOOLEAN :
    CommitWithin(MaxSubs + 1, "u1", CreatePaymentOutcome("u1", req, fail, paid), Deferred("u1"))

LiveChangePlan ==
  \E req \in LiveChanges :
    LET o == ChangePlanOutcome("u1", req, "none", TRUE)
    IN  CommitWithin(MaxSubs + 1, "u1", o, ChangePlanDeferred("u1", req, o))

LiveCancel ==
  \E subscriptionId \in RowIds :
    CommitWithin(MaxSubs + 1, "u1", CancelOutcome("u1", subscriptionId, "none"), Deferred("u1"))

LiveReactivateEarlier ==
  \E subscriptionId \in RowIds, fail \in {"none"} :
    CommitWithin(MaxSubs + 1, "u1", ReactivateEarlierOutcome("u1", subscriptionId, fail, TRUE),
             Deferred("u1"))

LiveReactivateFull ==
  \E subscriptionId \in RowIds, fail \in {"none"} :
    CommitWithin(MaxSubs + 1, "u1", ReactivateFullOutcome("u1", subscriptionId, fail, TRUE),
             Deferred("u1"))

LiveReactivateResume ==
  \E subscriptionId \in RowIds, fail \in {"none"} :
    CommitWithin(MaxSubs + 1, "u1", ReactivateResumeOutcome("u1", subscriptionId, fail, TRUE),
             Deferred("u1"))

NextLive ==
  \/ LiveCreatePayment
  \/ LiveChangePlan
  \/ LiveCancel
  \/ LiveReactivateEarlier
  \/ LiveReactivateFull
  \/ LiveReactivateResume
  \/ Tick
  \/ RemoteRollover
  \/ RemoteCancel

SpecLive == Init /\ [][NextLive]_vars

\* SpecShared: two users asking for a trial, or for a paid plan, each with
\* their own tokenization of one card, their create-payment invocations
\* running side by side
SharedRequests(pm) ==
  [planType : {"monthly"}, isTrial : BOOLEAN, autoRenew : {TRUE},
   paymentMethodId : {pm}, priceId : {TRUE}]

NextShared ==
  \/ CreatePaymentStart("u1", SharedRequests("pm_F"), NoFault, Charged)
  \/ CreatePaymentStart("u2", SharedRequests("pm_F2"), NoFault, Charged)
  \/ CreatePaymentFinish
  \/ Tick

SpecShared == Init /\ [][NextShared]_vars

\* SpecOwner: two users with a subscription each, and cancel-subscription
\* and the reactivate-subscription variants called by either of them or by
\* an unauthenticated caller with any subscriptionId
Everyone == Users \cup {Anon}

NextOwner ==
  \/ \E u \in Users : CreatePayment(u, LiveRequests, NoFault, Charged)
  \/ \E u \in Everyone : CancelSubscription(u, NoFault)
  \/ \E u \in Everyone : ReactivateEarlier(u, NoFault, Charged)
  \/ \E u \in Everyone : ReactivateFull(u, NoFault, Charged)
  \/ \E u \in Everyone : ReactivateResume(u, NoFault, Charged)
  \/ Tick

SpecOwner == Init /\ [][NextOwner]_vars

---------------------------------------------------------------------------
(* Properties of the user-initiated handlers, checked under Spec *)

\* the columns of a row a cancellation is not to touch
KeptByCancel ==
  DOMAIN DefaultRow \ {"status", "cancel_at_period_end"}

\* C1: a change-plan request for a lower-ranked plan, accepted for a user whose
\* local status is active, leaves plan_type as it was and populates
\* pending_plan_change
C1_DowngradeDeferred ==
  [][\A u \in Users, req \in LifeChanges, fail \in ChangePlanFaults :
       (/\ HasRow(u)
        /\ subscriptions[RowOf(u)].status = "active"
        /\ PlanLevel(req.newPlanType) < PlanLevel(subscriptions[RowOf(u)].plan_type)
        /\ ChangePlanStep(u, req, fail, TRUE)
        /\ response'.status = 200)
       => /\ subscriptions'[RowOf(u)].plan_type = subscriptions[RowOf(u)].plan_type
          /\ subscriptions'[RowOf(u)].pending_plan_change # {}]_vars

\* C6: a handler invocation whose remote subscription mutation failed answers
\* with an error and leaves the local table as it was, and a handler changes
\* the local table only in an invocation whose remote mutation succeeded
C6_NoPartialCommit ==
  [][/\ (response'.mutation = "failed" /\ response' # response)
          => response'.status = 400 /\ subscriptions' = subscriptions
     /\ subscriptions' # subscriptions => response'.mutation = "ok"]_vars

\* C6 witness: a remote mutation has failed on a user who holds a row
C6_Witness ==
  /\ response.mutation = "failed"
  /\ response.caller \in Users
  /\ HasRow(response.caller)

\* C9: a successful cancel-subscription sets cancel_at_period_end on the remote
\* subscription, writes status cancelled and cancel_at_period_end true to the
\* row and leaves every other column and row alone
C9_CancelMirrored ==
  [][\A u \in Users, id \in RowIds, fail \in CancelFaults :
       (CancelStep(u, id, fail) /\ response'.status = 200)
       => /\ remoteSubs'[subscriptions[id].stripe_subscription_id].cancel_at_period_end
          /\ subscriptions'[id].status = "cancelled"
          /\ subscriptions'[id].cancel_at_period_end
          /\ \A c \in KeptByCancel : subscriptions'[id][c] = subscriptions[id][c]
          /\ \A j \in DOMAIN subscriptions : j # id => subscriptions'[j] = subscriptions[j]
          /\ Len(subscriptions') = Len(subscriptions)]_vars

\* C9 witness: a cancellation has succeeded on a row of a paid plan
C9_Witness ==
  /\ response.op = "cancel-subscription"
  /\ response.status = 200
  /\ \E i \in DOMAIN subscriptions :
       /\ subscriptions[i].status = "cancelled"
       /\ subscriptions[i].plan_type = "annual"
       /\ subscriptions[i].current_period_end = ToISO(PlanMonths("annual"))

\* C10: a reactivation of a row whose current_period_end is not in the future
\* fails with SubscriptionExpired, makes no remote call and writes nothing
C10_ExpiredNotReactivated ==
  [][\A u \in Users, id \in RowIds, fail \in ReactivateFaults :
       (/\ OwnedRow(u, id)
        /\ GetTime(subscriptions[id].current_period_end) <= ToISO(now)
        /\ \/ ReactivateEarlierStep(u, id, fail, TRUE)
           \/ ReactivateFullStep(u, id, fail, TRUE)
           \/ ReactivateResumeStep(u, id, fail, TRUE))
       => /\ response'.error = "SubscriptionExpired"
          /\ response'.calls = {}
          /\ subscriptions' = subscriptions
          /\ remoteSubs' = remoteSubs]_vars

---------------------------------------------------------------------------
(* Properties of reactivate-subscription, checked under SpecReact *)

\* row id of u is not expired and its remote subscription can be retrieved
Reactivable(u, id) ==
  /\ OwnedRow(u, id)
  /\ GetTime(subscriptions[id].current_period_end) > ToISO(now)
  /\ Retrievable(subscriptions[id].stripe_subscription_id)

RemoteStatusOf(id) == remoteSubs[subscriptions[id].stripe_subscription_id].status

\* one invocation of any of the three variants
ReactivateStep(u, id, fail) ==
  \/ ReactivateEarlierStep(u, id, fail, TRUE)
  \/ ReactivateFullStep(u, id, fail, TRUE)
  \/ ReactivateResumeStep(u, id, fail, TRUE)

\* C11: a reactivation of a non-expired row whose remote subscription is
\* canceled, the remote calls succeeding, creates a new remote subscription
\* that trials until the stored period end (in seconds), and the row then
\* holds the new remote id, status active, cancel_at_period_end false and the
\* plan_type it had
C11_CanceledRecreated ==
  [][\A u \in Users, id \in RowIds :
       (/\ Reactivable(u, id)
        /\ RemoteStatusOf(id) = "canceled"
        /\ ReactivateStep(u, id, "none"))
       => /\ Len(remoteSubs') = Len(remoteSubs) + 1
          /\ remoteSubs'[Len(remoteSubs')].status = "trialing"
          /\ remoteSubs'[Len(remoteSubs')].current_period_end
               = FloorSec(GetTime(subscriptions[id].current_period_end))
          /\ subscriptions'[id].stripe_subscription_id = Len(remoteSubs')
          /\ subscriptions'[id].status = "active"
          /\ ~subscriptions'[id].cancel_at_period_end
          /\ subscriptions'[id].plan_type = subscriptions[id].plan_type]_vars

C13_OtherStatusRefused ==
  [][\A u \in Users, id \in RowIds, fail \in {"none", "subscriptions.retrieve"} :
       (/\ Reactivable(u, id)
        /\ fail = "none" => RemoteStatusOf(id) \notin {"active", "trialing", "canceled"}
        /\ ReactivateStep(u, id, fail))
       => /\ response'.status = 400
          /\ fail = "none" => response'.error = "CannotReactivate"
          /\ remoteSubs' = remoteSubs
          /\ subscriptions' = subscriptions]_vars

---------------------------------------------------------------------------
(* Properties of the webhook, checked under SpecSync and SpecPay *)

CanceledStatuses == {"canceled", "cancelled"}

\* C2: no webhook delivery turns the status of a canceled row back to active
\* (a step that is a delivery leaves its event in lastEvent)
C2_NoWebhookRevival ==
  [][\A i \in DOMAIN subscriptions :
       (/\ subscriptions[i].status \in CanceledStatuses
        /\ i \in DOMAIN subscriptions'
        /\ subscriptions'[i].status = "active")
       => lastEvent' = {}]_vars

\* the status a subscription event asks the store to record
EventStatus(event) ==
  IF event.type = "customer.subscription.deleted" THEN "canceled"
  ELSE MapStatus(event.object.status)

\* C4: of two subscription events about the same remote subscription, delivered
\* one after the other, the row keeps the status and period of the one with
\* the later billing period also when that one was delivered first
C4_LaterPeriodWins ==
  [][\A later \in lastEvent, earlier \in lastEvent' :
       (/\ later.type \in SubscriptionEventTypes
        /\ earlier.type \in SubscriptionEventTypes
        /\ later.object.id = earlier.object.id
        /\ later.object.user_id \in Users
        /\ later.object.current_period_start > earlier.object.current_period_start)
       => \A i \in DOMAIN subscriptions' :
            subscriptions'[i].user_id = later.object.user_id
            => /\ subscriptions'[i].status = EventStatus(later)
               /\ subscriptions'[i].current_period_start
                    = ToISO(later.object.current_period_start)
               /\ subscriptions'[i].current_period_end
                    = ToISO(later.object.current_period_end)]_vars

\* C5: no write to a row that keeps its remote subscription id moves
\* current_period_end backwards
C5_PeriodEndMonotonic ==
  [][\A i \in DOMAIN subscriptions :
       (/\ i \in DOMAIN subscriptions'
        /\ subscriptions'[i].stripe_subscription_id = subscriptions[i].stripe_subscription_id)
       => subscriptions'[i].current_period_end >= subscriptions[i].current_period_end]_vars

\* C8: while a deferred downgrade is recorded for a user, the row's plan_type
\* becomes the target only by a webhook event whose period starts after the
\* period the downgrade was requested in
C8_DowngradeWaitsForPeriod ==
  [][\A u \in Users : \A d \in deferred[u] :
       (/\ deferred'[u] = deferred[u]
        /\ HasRow(u)
        /\ subscriptions[RowOf(u)].plan_type # d.target
        /\ subscriptions'[RowOf(u)].plan_type = d.target)
       => \E event \in lastEvent' :
            /\ event.type \in SubscriptionEventTypes
            /\ event.object.current_period_start > d.period_start]_vars

\* C3: a second delivery of the event that was delivered and processed last,
\* nothing but time in between, leaves the subscription rows and the invoice
\* rows as the first delivery left them
C3_RedeliveryIdempotent ==
  [][(/\ lastEvent # {}
      /\ lastEvent' = lastEvent
      /\ response.status = 200
      /\ response'.status = 200)
       => subscriptions' = subscriptions /\ invoices' = invoices]_vars

---------------------------------------------------------------------------
(* Properties of the invoice persister, checked under SpecPay *)

InvoiceEventTypes ==
  {"invoice.payment_succeeded", "invoice.finalized", "invoice.created",
   "invoice.payment_failed"}

RowsOfInvoice(invs, id) == {r \in invs : r.stripe_invoice_id = id}

\* C14: the invoices table never holds two rows of one remote invoice id, and
\* after the delivery of an invoice event whose owner is found the one row of
\* that invoice carries the payload just delivered, the rows of other
\* invoices staying as they were
C14_InvoiceUpsert ==
  [][/\ \A r1, r2 \in invoices' :
          r1.stripe_invoice_id = r2.stripe_invoice_id => r1 = r2
     /\ \A event \in lastEvent' :
          (/\ now' = now
           /\ event.type \in InvoiceEventTypes
           /\ InvoiceOwners(event.object) # {})
          => /\ \E r \in invoices' :
                  /\ r.stripe_invoice_id = event.object.id
                  /\ r.raw = event.object
                  /\ r.status = event.object.status
             /\ \A r \in invoices :
                  r.stripe_invoice_id # event.object.id => r \in invoices']_vars

\* C14 witness: the row of an invoice that has since been paid holds the
\* payload of the invoice.created event delivered last
C14_Witness ==
  \E r \in invoices, event \in lastEvent :
    /\ event.type = "invoice.created"
    /\ r.raw = event.object
    /\ r.status = "draft"
    /\ "paid" \in remoteInvoices[r.stripe_invoice_id].statuses

C16_TerminalInvoiceImmutable ==
  [][\A r \in invoices :
       r.status \in {"paid", "void"}
       => \E r2 \in invoices' :
            /\ r2.stripe_invoice_id = r.stripe_invoice_id
            /\ \A c \in DOMAIN r \ {"raw"} : r2[c] = r[c]]_vars

\* C17: the delivery of an invoice event whose customer no row references
\* has a failed result, writes no invoice row and changes no subscription row
C17_OrphanInvoiceFails ==
  [][\A event \in lastEvent' :
       (/\ now' = now
        /\ event.type \in InvoiceEventTypes
        /\ InvoiceOwners(event.object) = {})
       => /\ response'.status = 400
          /\ invoices' = invoices
          /\ subscriptions' = subscriptions]_vars

\* C17 witness: an invoice event arrived before the create-payment invocation
\* that links its customer had written the row, and failed at the owner lookup
C17_Witness ==
  \E event \in lastEvent, p \in inflight :
    /\ event.type \in InvoiceEventTypes
    /\ event.object.customer = p.fields.stripe_customer_id
    /\ InvoiceOwners(event.object) = {}
    /\ response.op = "invoice_processing_failed"
    /\ response.calls = {}
    /\ RowsOfInvoice(invoices, event.object.id) = {}

---------------------------------------------------------------------------
(* Properties of the local table under concurrent invocations, checked under
   SpecRace *)

NonExpiredRows(u) ==
  {i \in DOMAIN subscriptions :
     /\ subscriptions[i].user_id = u
     /\ GetTime(subscriptions[i].current_period_end) > ToISO(now)}

LiveRemote(u) ==
  {i \in DOMAIN remoteSubs :
     /\ remoteSubs[i].user_id = u
     /\ remoteSubs[i].status \notin {"canceled", "incomplete_expired"}}

\* C18: the subscriptions table holds at most one non-expired row per user
C18_OneRowPerUser ==
  \A u \in Users : Cardinality(NonExpiredRows(u)) <= 1

\* C19: the plan_type of every row is one of trial, monthly, semiannual, annual
C19_PlanTypeEnumerated ==
  \A i \in DOMAIN subscriptions : subscriptions[i].plan_type \in Plans

\* C20: when a create-payment invocation has succeeded and none is in flight,
\* whatever invocations failed or were retried before, one remote customer
\* has been created for the user, who has one live remote subscription and
\* one local row
C20_RetrySafe ==
  (/\ response.op = "create-payment"
   /\ response.status = 200
   /\ inflight = {})
  => /\ customers = 1
     /\ Cardinality(LiveRemote(response.caller)) = 1
     /\ Cardinality(RowsOf(response.caller)) = 1

---------------------------------------------------------------------------
(* The trial fingerprint guard, checked under SpecTrial *)

\* another user's row carries the fingerprint of payment method pm
CarriedByOther(u, pm) ==
  \E i \in DOMAIN subscriptions :
    /\ subscriptions[i].user_id # u
    /\ subscriptions[i].card_fingerprint = FpOf(pm)

\* C7: a trial creation with a payment method whose fingerprint another user's
\* row carries fails with DuplicateTrialCard and changes nothing; one whose
\* fingerprint no other user's row carries is not refused and succeeds
\* when the remote calls do
C7_TrialFingerprintGuard ==
  [][\A u \in Users, req \in TrialRequests, fail \in CreatePaymentFaults :
       (/\ req.isTrial
        /\ req.paymentMethodId # NoPm
        /\ CreatePaymentStep(u, req, fail, TRUE))
       => /\ CarriedByOther(u, req.paymentMethodId)
               => /\ response'.error = "DuplicateTrialCard"
                  /\ subscriptions' = subscriptions
                  /\ remoteSubs' = remoteSubs
          /\ ~CarriedByOther(u, req.paymentMethodId)
               => /\ response'.error # "DuplicateTrialCard"
                  /\ response'.error # "RemoteProviderError" => response'.status = 200]_vars

---------------------------------------------------------------------------
(* Properties of the plan-change strategy, checked under SpecChange *)

\* the update strategy of a change from plan `current`, read off the
\* parameters p of the stripe.subscriptions.update call
UpdateAsSpecified(current, p) ==
  /\ p.proration # "unset"
  /\ p.anchor # "unset"
  /\ IF current = "trial" /\ p.plan_type # "trial" THEN
        p.trial_end_now /\ p.proration = "create_prorations"
      ELSE IF /\ {current, p.plan_type} \subseteq Plans \ {"trial"}
              /\ current # p.plan_type THEN
        p.anchor = "now" /\ p.proration = "create_prorations"
      ELSE IF PlanLevel(p.plan_type) > PlanLevel(current) THEN
        p.proration = "create_prorations" /\ p.anchor = "unchanged"
      ELSE IF PlanLevel(p.plan_type) < PlanLevel(current) THEN
        p.proration = "none" /\ p.anchor = "unchanged"
      ELSE TRUE

\* C21: every update of a live remote subscription that create-payment or
\* change-plan issues for a plan change sets proration behaviour and anchor
\* mode explicitly and follows the strategy of the plan pair: trial to paid
\* ends the trial now with prorations, an interval change resets the anchor
\* to now with prorations, an upgrade prorates and keeps the anchor, a
\* downgrade neither prorates nor moves the anchor
C21_UpdateStrategy ==
  [][\A req \in ChangeRequests, ch \in ChangeTargets :
       (/\ HasRow("u1")
        /\ \/ CreatePaymentStep("u1", req, "none", TRUE)
           \/ ChangePlanStep("u1", ch, "none", TRUE)
        /\ response'.status = 200
        /\ "subscriptions.update" \in response'.calls)
       => UpdateAsSpecified(subscriptions[RowOf("u1")].plan_type, response'.update)]_vars


\* C22: a change-plan request for monthly by a user whose row is a trial and
\* whose remote subscription is trialing updates the remote subscription with
\* trial_end now and create_prorations, and answers requiresPayment true with
\* a client secret
C22_TrialToMonthlyCharged ==
  [][\A ch \in ChangeTargets :
       (/\ HasRow("u1")
        /\ subscriptions[RowOf("u1")].plan_type = "trial"
        /\ Retrievable(subscriptions[RowOf("u1")].stripe_subscription_id)
        /\ remoteSubs[subscriptions[RowOf("u1")].stripe_subscription_id].status = "trialing"
        /\ ch.newPlanType = "monthly"
        /\ ChangePlanStep("u1", ch, "none", TRUE))
       => /\ response'.status = 200
          /\ response'.update.trial_end_now
          /\ response'.update.proration = "create_prorations"
          /\ response'.requiresPayment
          /\ response'.clientSecret # NoSecret]_vars

---------------------------------------------------------------------------
(* Properties of the plan hierarchy resolver, checked under SpecPreview *)

\* C23: for every pair of distinct plan types the preview handler resolves,
\* exactly one of isUpgrade and isDowngrade holds, as the ranks order the
\* pair, and hasIntervalChange holds iff exactly one of the two is monthly
\* or the pair is semiannual and annual
C23_HierarchyResolver ==
  [][\A u \in Callers, ch \in ChangeTargets, fail \in PreviewFaults :
       (/\ PreviewStep(u, ch, fail)
        /\ response'.status = 200
        /\ ~response'.isNewSubscription
        /\ response'.currentPlan # response'.newPlan)
       => LET current == response'.currentPlan
              target == response'.newPlan
              r == response'.resolved
          IN  /\ current = subscriptions[RowOf(u)].plan_type
              /\ target = ch.newPlanType
              /\ r.isUpgrade # r.isDowngrade
              /\ r.isUpgrade <=> PlanLevel(target) > PlanLevel(current)
              /\ r.isDowngrade <=> PlanLevel(target) < PlanLevel(current)
              /\ r.hasIntervalChange <=>
                   \/ (current = "monthly") # (target = "monthly")
                   \/ {current, target} = {"semiannual", "annual"}]_vars

\* C23 witness: a preview has resolved annual to monthly, a downgrade that
\* changes the interval
C23_Witness ==
  /\ response.op = "preview-plan-change"
  /\ response.status = 200
  /\ "resolved" \in DOMAIN response
  /\ response.currentPlan = "annual"
  /\ response.newPlan = "monthly"
  /\ response.resolved.isDowngrade
  /\ response.resolved.hasIntervalChange

---------------------------------------------------------------------------
(* Properties of the webhook's metadata checks, checked under SpecPay *)

\* the metadata the handler of an event needs is missing: user id and plan
\* type on the object of a checkout or payment event, the user id on the
\* subscription of a subscription event or of an invoice
LacksMetadata(event) ==
  CASE event.type \in {"checkout.session.completed", "payment_intent.succeeded"} ->
         event.object.user_id = NoUser \/ event.object.plan_type = NoPlan
    [] event.type \in SubscriptionEventTypes -> event.object.user_id = NoUser
    [] event.type \in InvoiceEventTypes ->
         /\ Retrievable(event.object.subscription)
         /\ remoteSubs[event.object.subscription].user_id = NoUser
    [] OTHER -> FALSE

\* C24: the delivery of an event that lacks the metadata its handler needs
\* is acknowledged with a successful processing result and changes no
\* subscription row
C24_MissingMetadataNoOp ==
  [][\A event \in lastEvent' :
       (now' = now /\ LacksMetadata(event))
       => /\ response'.status = 200
          /\ subscriptions' = subscriptions]_vars

---------------------------------------------------------------------------
(* Properties of the webhook endpoint, checked under SpecHook *)

\* C25: a request without signature header, one received while no webhook
\* secret is configured and one whose signature does not verify are answered
\* with 400; no event is dispatched, nothing is written locally and no
\* remote call is made
C25_UnverifiedRejected ==
  [][\A signature \in Signatures, webhookSecret \in BOOLEAN,
       subscription \in SubscriptionPayloads, type \in SubscriptionEventTypes :
       (/\ signature # "valid" \/ ~webhookSecret
        /\ WebhookEndpoint(signature, webhookSecret,
                           [type |-> type, object |-> subscription], FALSE))
       => /\ response'.status = 400
          /\ response'.calls = {}
          /\ lastEvent' = {}
          /\ subscriptions' = subscriptions
          /\ invoices' = invoices
          /\ remoteSubs' = remoteSubs]_vars

---------------------------------------------------------------------------
(* Properties of the period calculator, checked under SpecPeriod *)

\* the tolerance band of a plan, in whole days
Band(planType) ==
  CASE planType = "monthly" -> 28..31
    [] planType = "semiannual" -> 180..186
    [] planType = "annual" -> 360..370
    [] planType = "trial" -> 28..32

\* the least number of whole days that cover a length of the remote clock
WholeDays(length) ==
  CHOOSE n \in 0..(MaxPeriodDays + 1) :
    n * DayLength >= length /\ (n - 1) * DayLength < length

\* C26: calculatePeriodFromStripe returns the period bounds of the remote
\* subscription as start and end whatever the duration, and isAccurate iff
\* the duration in whole days, rounded up, lies in the band of the plan
C26_PeriodFromStripe ==
  response.op = "calculatePeriodFromStripe" =>
    \A event \in lastEvent :
      LET s == event.object
          r == response.period
      IN  /\ r.start = 1000 * s.current_period_start
          /\ r.end = 1000 * s.current_period_end
          /\ r.isAccurate <=>
               WholeDays(s.current_period_end - s.current_period_start)
                 \in Band(s.plan_type)

\* C26 witness: a monthly period of 15 days was flagged inaccurate and
\* returned with its bounds
C26_Witness ==
  /\ response.op = "calculatePeriodFromStripe"
  /\ \E event \in lastEvent :
       /\ event.object.plan_type = "monthly"
       /\ event.object.current_period_end - event.object.current_period_start
            = 15 * DayLength
       /\ ~response.period.isAccurate
       /\ response.period.end = 1000 * event.object.current_period_end

---------------------------------------------------------------------------
(* Properties of the cancellation flag, checked under SpecChange *)

\* C27: when create-payment, change-plan or cancel-subscription has answered
\* with success, cancel_at_period_end of the caller's row equals
\* cancel_at_period_end of the remote subscription the row stores
C27_CancelFlagMirrored ==
  [][\A req \in ChangeRequests, ch \in ChangeTargets, id \in RowIds :
       (/\ \/ CreatePaymentStep("u1", req, "none", TRUE)
           \/ ChangePlanStep("u1", ch, "none", TRUE)
           \/ CancelStep("u1", id, "none")
        /\ response'.status = 200)
       => \A i \in DOMAIN subscriptions' :
            (/\ subscriptions'[i].user_id = "u1"
             /\ subscriptions'[i].stripe_subscription_id \in DOMAIN remoteSubs')
            => subscriptions'[i].cancel_at_period_end
                 = remoteSubs'[subscriptions'[i].stripe_subscription_id].cancel_at_period_end]_vars

---------------------------------------------------------------------------
(* Properties of the remote subscriptions of a user, checked under SpecLive *)

\* the remote subscriptions the rows of u store
StoredRemote(u) ==
  {subscriptions[i].stripe_subscription_id : i \in RowsOf(u)} \ {NoId}

\* C28: a user has at most one remote subscription that is not canceled, and
\* it is the one the user's row stores; a step creates a remote subscription
\* only when the stored one is canceled or absent
C28_OneLiveRemote ==
  [][/\ Cardinality(LiveRemote("u1")') <= 1
     /\ LiveRemote("u1")' \subseteq StoredRemote("u1")'
     /\ Len(remoteSubs') > Len(remoteSubs)
          => \A id \in StoredRemote("u1") :
               Retrievable(id) => remoteSubs[id].status = "canceled"]_vars

---------------------------------------------------------------------------
(* Properties of concurrent trial creations, checked under SpecShared *)

\* the users who hold a trial row carrying fingerprint fp
TrialHolders(fp) ==
  {u \in Users :
     \E i \in RowsOf(u) :
       /\ subscriptions[i].plan_type = "trial"
       /\ subscriptions[i].card_fingerprint = fp}

\* C29: however the create-payment invocations of two users whose payment
\* methods share a card fingerprint interleave, at most one of the users
\* holds a trial row carrying that fingerprint
C29_OneTrialPerCard ==
  Cardinality(TrialHolders(FpOf("pm_F"))) <= 1

---------------------------------------------------------------------------
(* Properties of the ownership check, checked under SpecOwner *)

\* C30: cancel-subscription and reactivate-subscription called without a
\* valid identity, or by a caller who is not the user_id of the row that
\* subscriptionId names, fail before any remote call and leave every row and
\* every remote subscription as it was
C30_OwnerOnly ==
  [][\A u \in Everyone, id \in RowIds :
       (/\ \/ u = Anon
           \/ id \notin DOMAIN subscriptions
           \/ subscriptions[id].user_id # u
        /\ \/ CancelStep(u, id, "none")
           \/ ReactivateEarlierStep(u, id, "none", TRUE)
           \/ ReactivateFullStep(u, id, "none", TRUE)
           \/ ReactivateResumeStep(u, id, "none", TRUE))
       => /\ response'.status = 400
          /\ response'.calls = {}
          /\ subscriptions' = subscriptions
          /\ remoteSubs' = remoteSubs]_vars

\* C30 witness: a user who holds a row of their own was refused on a
\* subscriptionId, while another user holds a row with a live subscription
C30_Witness ==
  /\ response.op \in ReactivateOps \cup {"cancel-subscription"}
  /\ response.error = "SubscriptionNotFound"
  /\ response.calls = {}
  /\ response.caller \in Users
  /\ HasRow(response.caller)
  /\ \E v \in Users \ {response.caller} :
       /\ HasRow(v)
       /\ subscriptions[RowOf(v)].status = "active"
       /\ ~subscriptions[RowOf(v)].cancel_at_period_end

====
